---- MODULE Spec2Model ----
(***************************************************************************)
(* Verification model of ado-git-repo-insights.                            *)
(*                                                                         *)
(* Two state machines share the module:                                    *)
(*   SpecInsights - ml/insights.py, LLMInsightsGenerator.generate() over   *)
(*                  the files insights/{prompt,cache,summary}.json         *)
(*                  (SpecDryRun: the same machine with the dry runs);      *)
(*   SpecExtract  - cli.py cmd_extract driving the per-project extraction  *)
(*                  (window resolution, watermark, entity store).          *)
(* Each specification leaves the other machine's variables unchanged.      *)
(*                                                                         *)
(* Modelling conventions:                                                  *)
(*   - SQL NULL / Python None in a text column is the string NULL;         *)
(*   - sha256 is collision free: a digest is the tagged pre-image, and a   *)
(*     prefix of n hex characters of it is assumed collision free too;     *)
(*   - "|".join(parts) is the tuple of the parts;                          *)
(*   - a JSON object is a record, an absent key being listed in no "keys". *)
(***************************************************************************)
EXTENDS Integers, Sequences, FiniteSets, Bags, TLC

(***************************************************************************)
(* Bounds of the model.                                                    *)
(***************************************************************************)
MaxClock == 2
MaxPromptVersion == 3
MaxToday == 15

(***************************************************************************)
(* Program constants of ml/insights.py.                                    *)
(***************************************************************************)
INSIGHTS_SCHEMA_VERSION == 1
GENERATOR_ID == "openai-v1.0"
DEFAULT_MODEL == "gpt-5-nano"
InitialPromptVersion == 2
IdHexChars == 12
PromptHashHexChars == 16
FullHexChars == 64

NULL == "NULL"
EmptyDataset == "empty-dataset"
NoCycle == 0 - 1

VARIABLES
    \* ---- insights machine (ml/insights.py) ----
    db,              \* rows of pull_requests seen through LLMInsightsGenerator.db
    PROMPT_VERSION,  \* n stands for the module constant "phase5-v<n>"
    clock,           \* datetime.now(timezone.utc), in hours
    promptFile,      \* insights/prompt.json
    cacheFile,       \* insights/cache.json
    summaryFile,     \* insights/summary.json
    last,            \* the operation that produced this state, with its outcome
    payloadRun,      \* history: inputs of the run whose generator call produced
                     \* the payload last written to cache.json and summary.json
    \* ---- extraction machine (cli.py cmd_extract) ----
    today,           \* date.today(), day 0 being January 1
    watermark,       \* ExtractionWatermark: project -> last extracted date
    pull_requests,   \* EntityStore tables, each the bag of its rows
    users,
    threads,
    comments,
    pc,              \* position of cmd_extract: idle, extract, finish
    args,            \* the arguments of the run (dates, backfill, comment flags)
    projectIdx,      \* position of extract_all in config.projects
    results,         \* ExtractionSummary.projects of the run
    apiCalls,        \* requests the run sent to the API client, in order
    runSummary,      \* run_artifacts/run_summary.json
    exitCode,        \* return value of the last cmd_extract
    runStart,        \* history: the watermarks when the run began
    base,            \* history: day, cleanness and row counts of the last run
    repeat,          \* history: the run repeats the arguments of the last run
    ending,          \* history: how the last cmd_extract was left
    commentLog,      \* history: what _extract_comments did in the run, in order
    windows,         \* history: project -> the windows of its successful extractions
    \* ---- fallback forecaster (ml/fallback_forecaster.py) ----
    weekly,          \* the DataFrame of _get_weekly_metrics, one row per week
    forecastDay,     \* date.today() of the forecaster, day 0 being January 1
    trendsFile,      \* predictions/trends.json
    dataQuality,     \* FallbackForecaster._data_quality
    lastForecast,    \* history: the last generate() call and what it returned
    clipIn,          \* the array handed to clip_outliers
    clipOut,         \* the array clip_outliers returned
    \* ---- aggregate run (cli.py cmd_generate_aggregates) ----
    manifest,        \* dataset-manifest.json
    lastAggregate,   \* history: the flags and engine outcome of the last run
    \* ---- dataset discovery (utils/dataset_discovery.py) ----
    artifacts,       \* the run_artifacts directory: candidate -> its manifest file
    dataset,         \* the directory handed to validate_dataset_root
    discovery        \* history: the last call and what it returned or raised

insightVars == <<db, PROMPT_VERSION, clock, promptFile, cacheFile, summaryFile,
                 last, payloadRun>>

extractVars == <<today, watermark, windows, pull_requests, users, threads, comments, pc,
                 args, projectIdx, results, apiCalls, runSummary, exitCode, runStart,
                 base, repeat, ending, commentLog>>

forecastVars == <<weekly, forecastDay, trendsFile, dataQuality, lastForecast,
                  clipIn, clipOut>>

aggregateVars == <<manifest, lastAggregate>>

discoveryVars == <<artifacts, dataset, discovery>>

vars == <<insightVars, extractVars, forecastVars, aggregateVars, discoveryVars>>

(***************************************************************************)
(* The database as the insights generator queries it.                      *)
(***************************************************************************)
TsOrder == <<"2026-01-05T09:00:00Z", "2026-01-06T17:00:00Z">>

TsRank(t) == CHOOSE i \in 1..Len(TsOrder) : TsOrder[i] = t

\* closed_date[:10]
DatePart(t) ==
    IF TsRank(t) = 1 THEN "2026-01-05" ELSE "2026-01-06"

InsightPRRows ==
    { [pull_request_uid |-> "pr-1", status |-> "completed",
       closed_date |-> TsOrder[1], updated_at |-> TsOrder[2],
       cycle_time_minutes |-> 125, user_id |-> "user-1", repository_id |-> "repo-1"],
      [pull_request_uid |-> "pr-2", status |-> "active",
       closed_date |-> NULL, updated_at |-> NULL,
       cycle_time_minutes |-> NoCycle, user_id |-> "user-2", repository_id |-> "repo-1"] }

\* SQL MAX / MIN over a text column: NULLs are ignored, NULL when no row is left
SqlMax(S) ==
    LET T == S \ {NULL}
    IN IF T = {} THEN NULL
       ELSE CHOOSE t \in T : \A u \in T : TsRank(u) <= TsRank(t)

SqlMin(S) ==
    LET T == S \ {NULL}
    IN IF T = {} THEN NULL
       ELSE CHOOSE t \in T : \A u \in T : TsRank(t) <= TsRank(u)

\* COALESCE(updated_at, closed_date)
Coalesce(a, b) == IF a # NULL THEN a ELSE b

RECURSIVE SumCycle(_)
SumCycle(S) ==
    IF S = {} THEN 0
    ELSE LET r == CHOOSE r \in S : TRUE
         IN r.cycle_time_minutes + SumCycle(S \ {r})

MaxCycle(S) ==
    CHOOSE m \in {r.cycle_time_minutes : r \in S} :
        \A r \in S : r.cycle_time_minutes <= m

\* round(num / den, 1) in tenths, ties to even as Python rounds
RoundTenths(num, den) ==
    LET q == (10 * num) \div den
        r == (10 * num) % den
    IN IF 2 * r > den THEN q + 1
       ELSE IF 2 * r < den THEN q
       ELSE IF q % 2 = 0 THEN q ELSE q + 1

\* _get_pr_stats; the two cycle-time statistics are in tenths of a minute
GetPRStats(d) ==
    LET cyc == {r \in d : r.cycle_time_minutes # NoCycle}
        mn == SqlMin({r.closed_date : r \in d})
        mx == SqlMax({r.closed_date : r \in d})
    IN [ total_prs |-> Cardinality({r \in d : r.status = "completed"}),
         date_range_start |-> IF mn # NULL THEN DatePart(mn) ELSE "N/A",
         date_range_end |-> IF mx # NULL THEN DatePart(mx) ELSE "N/A",
         avg_cycle_time_minutes |->
             IF cyc = {} \/ SumCycle(cyc) = 0 THEN 0
             ELSE RoundTenths(SumCycle(cyc), Cardinality(cyc)),
         p90_cycle_time_minutes |->
             IF cyc = {} \/ MaxCycle(cyc) = 0 THEN 0 ELSE 9 * MaxCycle(cyc),
         authors_count |-> Cardinality({r.user_id : r \in d}),
         repositories_count |-> Cardinality({r.repository_id : r \in d}) ]

\* the mutant passes the NULL of an empty table on
FreshnessMarkersNull(d) ==
    [ max_closed |-> SqlMax({r.closed_date : r \in d}),
      max_updated |-> SqlMax({Coalesce(r.updated_at, r.closed_date) : r \in d}) ]

\* the freshness markers, computed alike in _get_cache_key and _call_openai
FreshnessMarkers(d) ==
    LET max_closed == SqlMax({r.closed_date : r \in d})
        max_updated == SqlMax({Coalesce(r.updated_at, r.closed_date) : r \in d})
    IN [ max_closed |-> IF max_closed # NULL THEN max_closed ELSE EmptyDataset,
         max_updated |-> IF max_updated # NULL THEN max_updated ELSE EmptyDataset ]

(***************************************************************************)
(* Hashing and serialisation.                                              *)
(***************************************************************************)
Sha256Hex(x, n) == [alg |-> "sha256", hexchars |-> n, of |-> x]

\* json.dumps(prompt_data, sort_keys=True, ensure_ascii=True)
CanonicalJson(x) == <<"json", x>>

\* datetime.isoformat() and datetime.fromisoformat()
IsoFormat(t) == <<"iso8601", t>>
FromIsoFormat(s) == s[2]

(***************************************************************************)
(* _build_prompt                                                           *)
(***************************************************************************)
BuildPrompt(d, version) ==
    LET stats == GetPRStats(d)
    IN [ prompt |-> <<"You are a DevOps metrics analyst", stats>>,
         prompt_data |-> [prompt_version |-> version, stats |-> stats] ]

(***************************************************************************)
(* _get_cache_key                                                          *)
(***************************************************************************)
GetCacheKey(prompt_data, model, d, version) ==
    LET m == FreshnessMarkers(d)
        prompt_hash == Sha256Hex(CanonicalJson(prompt_data), PromptHashHexChars)
        key_parts == <<version, model, m.max_closed, m.max_updated, prompt_hash>>
    IN Sha256Hex(key_parts, FullHexChars)

(***************************************************************************)
(* What the external generator can answer to one request.                  *)
(* An entry of the "insights" list is a JSON value: is_dict tells whether  *)
(* it is an object, keys the keys it holds, category_is_str whether its    *)
(* category is a string. A string id is the tuple of its parts: the one   *)
(* part the generator supplied, or category and digest once it is fixed.   *)
(***************************************************************************)
AllKeys == {"id", "category", "severity", "title", "description", "affected_entities"}

Entry(id, category, severity, title, affected) ==
    [ is_dict |-> TRUE, keys |-> AllKeys, category_is_str |-> TRUE,
      id |-> id, category |-> category, severity |-> severity,
      title |-> title, description |-> "description", affected_entities |-> affected ]

EntryTrendA == Entry(<<"temp-1">>, "trend", "info", "Stable PR throughput", <<"project:test-project">>)
EntryTrendC == Entry(<<"temp-9">>, "trend", "warning", "Review latency detected", <<>>)
EntryBottleneck == Entry(<<"temp-2">>, "bottleneck", "warning", "Test", <<"repo:test">>)
EntryJunk == [EntryTrendA EXCEPT !.is_dict = FALSE, !.keys = {}]
EntryNoSeverity ==
    [Entry(<<"temp-3">>, "anomaly", "", "Test 2", <<>>) EXCEPT !.keys = AllKeys \ {"severity"}]

\* a JSON string where a list is expected
Text(t) == <<"text", t>>

\* entries outside the contract that the external generator may answer
EntryNoCategory ==
    [Entry(<<"temp-4">>, "", "info", "Test 4", <<>>) EXCEPT !.keys = AllKeys \ {"category"}]
EntryOddValues == Entry(<<"temp-5">>, "performance", "urgent", "Test 5", <<>>)
EntryEntitiesText == Entry(<<"temp-6">>, "trend", "info", "Test 6", Text("repo:test"))

LooseLists ==
    { <<EntryTrendA>>, <<EntryNoCategory>>, <<EntryOddValues>>, <<EntryEntitiesText>>,
      <<EntryNoSeverity, EntryBottleneck>>, <<EntryTrendA, EntryTrendC>>,
      <<EntryJunk, EntryTrendA, EntryNoSeverity, EntryTrendA>> }

InsightLists ==
    { <<>>, <<EntryTrendA>>, <<EntryTrendC>>, <<EntryBottleneck>>,
      <<EntryTrendA, EntryBottleneck>>, <<EntryJunk, EntryTrendA>>,
      <<EntryNoSeverity, EntryTrendC>> }

\* outcomes of client.chat.completions.create and of json.loads on its content
Responses ==
    { [kind |-> k, insights |-> <<>>] :
        k \in {"exception", "no_choices", "empty_content", "invalid_json",
               "missing_insights", "insights_not_list"} }
    \cup { [kind |-> "list", insights |-> l] : l \in InsightLists }

None == [is_none |-> TRUE]

(***************************************************************************)
(* _validate_and_fix_insights                                              *)
(***************************************************************************)
\* insight.get("category", "unknown")
CategoryOf(insight) ==
    IF "category" \in insight.keys THEN insight.category ELSE "unknown"

\* f"{category}-{sha256(f'{category}|{max_closed}|{max_updated}|{PROMPT_VERSION}|{idx}')[:12]}"
DeterministicIdNoVersion(category, max_closed, max_updated, version, idx) ==
    <<category, Sha256Hex(<<category, max_closed, max_updated, idx>>, IdHexChars)>>

\* the mutant leaves the position of the entry out of the hash
DeterministicIdNoIndex(category, max_closed, max_updated, version, idx) ==
    <<category, Sha256Hex(<<category, max_closed, max_updated, version>>, IdHexChars)>>

DeterministicId(category, max_closed, max_updated, version, idx) ==
    <<category, Sha256Hex(<<category, max_closed, max_updated, version, idx>>, IdHexChars)>>

\* the body of the loop for the entry at 0-based position idx: <<>> when the
\* entry is skipped, else the one fixed insight
FixInsightKeepId(insight, max_closed, max_updated, version, idx) ==
    IF ~insight.is_dict THEN <<>>
    ELSE IF "category" \in insight.keys /\ ~insight.category_is_str THEN <<>>
    ELSE LET fixed == [insight EXCEPT
                 !.keys = insight.keys \cup {"affected_entities", "id"},
                 !.affected_entities =
                     IF "affected_entities" \in insight.keys
                     THEN insight.affected_entities ELSE <<>>]
         IN IF {"severity", "title", "description"} \subseteq insight.keys
            THEN <<fixed>> ELSE <<>>

FixInsight(insight, max_closed, max_updated, version, idx) ==
    IF ~insight.is_dict THEN <<>>
    ELSE IF "category" \in insight.keys /\ ~insight.category_is_str THEN <<>>
    ELSE LET fixed == [insight EXCEPT
                 !.keys = insight.keys \cup {"affected_entities", "id"},
                 !.affected_entities =
                     IF "affected_entities" \in insight.keys
                     THEN insight.affected_entities ELSE <<>>,
                 !.id = DeterministicId(CategoryOf(insight), max_closed,
                                        max_updated, version, idx)]
         IN IF {"severity", "title", "description"} \subseteq insight.keys
            THEN <<fixed>> ELSE <<>>

RECURSIVE FixedInsights(_, _, _, _, _)
FixedInsights(insights_list, max_closed, max_updated, version, n) ==
    IF n = 0 THEN <<>>
    ELSE FixedInsights(insights_list, max_closed, max_updated, version, n - 1)
         \o FixInsight(insights_list[n], max_closed, max_updated, version, n - 1)

ValidateAndFixInsights(insights_json, max_closed, max_updated, version, now) ==
    IF insights_json.kind = "missing_insights" THEN None
    ELSE IF insights_json.kind = "insights_not_list" THEN None
    ELSE [ schema_version |-> INSIGHTS_SCHEMA_VERSION,
           generated_at |-> IsoFormat(now),
           is_stub |-> FALSE,
           generated_by |-> GENERATOR_ID,
           insights |-> FixedInsights(insights_json.insights, max_closed,
                                      max_updated, version,
                                      Len(insights_json.insights)) ]

(***************************************************************************)
(* _call_openai: value is the return value, raised tells whether it raised *)
(* (it raises before the client exists when OPENAI_API_KEY is unset),      *)
(* requested whether client.chat.completions.create was called.            *)
(***************************************************************************)
CallOpenAI(api_key_set, response, d, version, now) ==
    IF ~api_key_set
    THEN [value |-> None, raised |-> TRUE, requested |-> FALSE]
    ELSE IF response.kind \in {"exception", "no_choices", "empty_content", "invalid_json"}
    THEN [value |-> None, raised |-> FALSE, requested |-> TRUE]
    ELSE LET m == FreshnessMarkers(d)
         IN [ value |-> ValidateAndFixInsights(response, m.max_closed,
                                               m.max_updated, version, now),
              raised |-> FALSE, requested |-> TRUE ]

(***************************************************************************)
(* The files of the insights directory.                                    *)
(***************************************************************************)
Absent == [state |-> "absent"]
Unreadable == [state |-> "unreadable"]
File(content) == [state |-> "ok", content |-> content]

\* bool(x) of a cached or returned payload
Truthy(x) == x # None

(***************************************************************************)
(* _check_cache                                                            *)
(***************************************************************************)
CheckCacheNoTTL(cache_file, cache_key, cache_ttl_hours, now) ==
    IF cache_file.state # "ok" THEN None
    ELSE IF cache_file.content.cache_key # cache_key THEN None
    ELSE cache_file.content.insights_data

CheckCache(cache_file, cache_key, cache_ttl_hours, now) ==
    IF cache_file.state = "absent" THEN None
    ELSE IF cache_file.state = "unreadable" THEN None
    ELSE IF cache_file.content.cache_key # cache_key THEN None
    ELSE LET cached_at == FromIsoFormat(cache_file.content.cached_at)
             age_hours == now - cached_at
         IN IF age_hours > cache_ttl_hours THEN None
            ELSE cache_file.content.insights_data

(***************************************************************************)
(* _write_cache                                                            *)
(***************************************************************************)
WriteCache(cache_key, insights_data, now) ==
    File([ cache_key |-> cache_key,
           cached_at |-> IsoFormat(now),
           insights_data |-> insights_data ])

(***************************************************************************)
(* LLMInsightsGenerator.generate, as a function of the generator object    *)
(* (self), the environment (api_key_set, response of the external          *)
(* generator), the database, the clock and the three files.                *)
(***************************************************************************)
\* the mutant stamps the summary of a hit with the time of the hit
GenerateLiveRestamping(prompt_file, cache_file, summary_file, now, cache_key, cached_insights, call) ==
    IF Truthy(cached_insights)
    THEN [ prompt_file |-> prompt_file,
           cache_file |-> cache_file,
           summary_file |-> File([cached_insights EXCEPT !.generated_at = IsoFormat(now)]),
           result |-> TRUE, hit |-> TRUE, called |-> FALSE, requested |-> FALSE ]
    ELSE IF call.raised \/ ~Truthy(call.value)
    THEN [ prompt_file |-> prompt_file,
           cache_file |-> cache_file,
           summary_file |-> summary_file,
           result |-> FALSE, hit |-> FALSE, called |-> TRUE,
           requested |-> call.requested ]
    ELSE [ prompt_file |-> prompt_file,
           cache_file |-> WriteCache(cache_key, call.value, now),
           summary_file |-> File(call.value),
           result |-> TRUE, hit |-> FALSE, called |-> TRUE, requested |-> TRUE ]

\* the mutant rewrites cache.json on a hit, with a new cached_at
GenerateLiveRefreshingCache(prompt_file, cache_file, summary_file, now, cache_key, cached_insights, call) ==
    IF Truthy(cached_insights)
    THEN [ prompt_file |-> prompt_file,
           cache_file |-> WriteCache(cache_key, cached_insights, now),
           summary_file |-> File(cached_insights),
           result |-> TRUE, hit |-> TRUE, called |-> FALSE, requested |-> FALSE ]
    ELSE IF call.raised \/ ~Truthy(call.value)
    THEN [ prompt_file |-> prompt_file,
           cache_file |-> cache_file,
           summary_file |-> summary_file,
           result |-> FALSE, hit |-> FALSE, called |-> TRUE,
           requested |-> call.requested ]
    ELSE [ prompt_file |-> prompt_file,
           cache_file |-> WriteCache(cache_key, call.value, now),
           summary_file |-> File(call.value),
           result |-> TRUE, hit |-> FALSE, called |-> TRUE, requested |-> TRUE ]

\* the mutant writes summary.json whatever the generator call returned
GenerateLiveWritesAnyway(prompt_file, cache_file, summary_file, now, cache_key, cached_insights, call) ==
    IF Truthy(cached_insights)
    THEN [ prompt_file |-> prompt_file,
           cache_file |-> cache_file,
           summary_file |-> File(cached_insights),
           result |-> TRUE, hit |-> TRUE, called |-> FALSE, requested |-> FALSE ]
    ELSE [ prompt_file |-> prompt_file,
           cache_file |-> cache_file,
           summary_file |-> File(call.value),
           result |-> ~(call.raised \/ ~Truthy(call.value)), hit |-> FALSE,
           called |-> TRUE, requested |-> call.requested ]

\* generate() from "# Check cache" on: a run that is no dry run, given the
\* cache lookup (cached_insights) and, where it is reached, the generator call
GenerateLive(prompt_file, cache_file, summary_file, now, cache_key, cached_insights, call) ==
    IF Truthy(cached_insights)
    THEN [ prompt_file |-> prompt_file,
           cache_file |-> cache_file,
           summary_file |-> File(cached_insights),
           result |-> TRUE, hit |-> TRUE, called |-> FALSE, requested |-> FALSE ]
    ELSE IF call.raised \/ ~Truthy(call.value)
    THEN [ prompt_file |-> prompt_file,
           cache_file |-> cache_file,
           summary_file |-> summary_file,
           result |-> FALSE, hit |-> FALSE, called |-> TRUE,
           requested |-> call.requested ]
    ELSE [ prompt_file |-> prompt_file,
           cache_file |-> WriteCache(cache_key, call.value, now),
           summary_file |-> File(call.value),
           result |-> TRUE, hit |-> FALSE, called |-> TRUE, requested |-> TRUE ]

PromptArtifact(self, prompt, now) ==
    File([ model |-> self.model, max_tokens |-> self.max_tokens,
           prompt |-> prompt, generated_at |-> IsoFormat(now) ])

\* mutant: the dry run writes prompt.json and then goes on as any other run
GenerateBranchesNoEarlyReturn(self, now, prompt_file, cache_file, summary_file, prompt, cache_key, cached_insights, call) ==
    IF self.dry_run
    THEN GenerateLive(PromptArtifact(self, prompt, now), cache_file, summary_file,
                      now, cache_key, cached_insights, call)
    ELSE GenerateLive(prompt_file, cache_file, summary_file, now, cache_key,
                      cached_insights, call)

\* the branches of generate() once the prompt is built
GenerateBranches(self, now, prompt_file, cache_file, summary_file, prompt, cache_key, cached_insights, call) ==
    IF self.dry_run
    THEN [ prompt_file |-> PromptArtifact(self, prompt, now),
           cache_file |-> cache_file,
           summary_file |-> summary_file,
           result |-> FALSE, hit |-> FALSE, called |-> FALSE, requested |-> FALSE ]
    ELSE GenerateLive(prompt_file, cache_file, summary_file, now, cache_key,
                      cached_insights, call)

generate(self, api_key_set, response, d, version, now, prompt_file, cache_file, summary_file) ==
    LET built == BuildPrompt(d, version)
        cache_key == GetCacheKey(built.prompt_data, self.model, d, version)
    IN GenerateBranches(self, now, prompt_file, cache_file, summary_file,
                        built.prompt, cache_key,
                        CheckCache(cache_file, cache_key, self.cache_ttl_hours, now),
                        CallOpenAI(api_key_set, response, d, version, now))

(***************************************************************************)
(* Inputs of a run: the generator object and its environment. The answer   *)
(* of the external generator matters only to a run that requests it. The   *)
(* commands that create the generator return 1 before they create it when  *)
(* OPENAI_API_KEY is unset and the run is no dry run (cli.py, early         *)
(* validation for insights), so a run without the key is a dry run.        *)
(***************************************************************************)
Models == {DEFAULT_MODEL}
TtlChoices == {1}
DefaultMaxTokens == 1000

Generators ==
    [ max_tokens : {DefaultMaxTokens}, cache_ttl_hours : TtlChoices,
      dry_run : BOOLEAN, model : Models ]

NoResponse == [kind |-> "exception", insights |-> <<>>]

RunInputs ==
    { in \in [self : Generators, api_key_set : BOOLEAN, response : Responses] :
        \/ ~in.self.dry_run /\ in.api_key_set
        \/ in.self.dry_run /\ in.response = NoResponse }

\* the runs SpecInsights draws: every run that is not a dry run
LiveInputs == {in \in RunInputs : ~in.self.dry_run}

\* the runs SpecDryRun draws: the dry runs, and the other runs with three of
\* the answers of the external generator
DryRunInputs ==
    { in \in RunInputs :
        \/ in.self.dry_run
        \/ in.response = NoResponse
        \/ in.response.insights \in {<<EntryTrendA>>, <<EntryJunk, EntryTrendA>>} }

\* history: 0-based positions, in the generator's list, of the entries kept
RECURSIVE KeptIdx(_, _)
KeptIdx(insights_list, n) ==
    IF n = 0 THEN <<>>
    ELSE KeptIdx(insights_list, n - 1)
         \o (IF FixInsight(insights_list[n], NULL, NULL, 0, n - 1) # <<>>
             THEN <<n - 1>> ELSE <<>>)

NoRun == [written |-> FALSE]

RunOf(self, d, version, idx) ==
    [ written |-> TRUE, markers |-> FreshnessMarkers(d),
      prompt_data |-> BuildPrompt(d, version).prompt_data,
      model |-> self.model, idx |-> idx ]

\* the cache entry was written, by a run with this database, model and
\* statistics, under another PROMPT_VERSION, and is younger than the TTL
CacheEntryOfOtherVersion(cache_file, run, self, d, version, now) ==
    /\ cache_file.state = "ok"
    /\ run.written
    /\ run.markers = FreshnessMarkers(d)
    /\ run.model = self.model
    /\ run.prompt_data.stats = GetPRStats(d)
    /\ run.prompt_data.prompt_version # version
    /\ now - FromIsoFormat(cache_file.content.cached_at) <= self.cache_ttl_hours

\* the claim-side reading of "the cache entry is valid for this run"
CacheEntryValid(cache_file, self, d, version, now) ==
    /\ cache_file.state = "ok"
    /\ cache_file.content.cache_key
         = GetCacheKey(BuildPrompt(d, version).prompt_data, self.model, d, version)
    /\ now - FromIsoFormat(cache_file.content.cached_at) <= self.cache_ttl_hours

Op(name) ==
    [ op |-> name, dry_run |-> FALSE, valid |-> FALSE, stale |-> FALSE,
      api_key_set |-> FALSE, hit |-> FALSE, called |-> FALSE,
      requested |-> FALSE, result |-> FALSE ]

\* a step of the environment, between two runs
Env == Op("env")

(***************************************************************************)
(* The insights machine.                                                   *)
(***************************************************************************)
InitInsights ==
    /\ db = {}
    /\ PROMPT_VERSION = InitialPromptVersion
    /\ clock = 0
    /\ promptFile = Absent
    /\ cacheFile = Absent
    /\ summaryFile = Absent
    /\ last = Op("init")
    /\ payloadRun = NoRun

\* one call of LLMInsightsGenerator(db, output_dir, ...).generate()
GenerateCall(Inputs) ==
    \E in \in Inputs :
      \E out \in {generate(in.self, in.api_key_set, in.response, db,
                            PROMPT_VERSION, clock, promptFile, cacheFile, summaryFile)} :
        LET idx == KeptIdx(in.response.insights, Len(in.response.insights))
        IN /\ promptFile' = out.prompt_file
           /\ cacheFile' = out.cache_file
           /\ summaryFile' = out.summary_file
           /\ payloadRun' = IF out.result /\ ~out.hit
                            THEN RunOf(in.self, db, PROMPT_VERSION, idx)
                            ELSE payloadRun
           /\ last' = [ op |-> "generate", dry_run |-> in.self.dry_run,
                        valid |-> CacheEntryValid(cacheFile, in.self, db,
                                                  PROMPT_VERSION, clock),
                        stale |-> CacheEntryOfOtherVersion(cacheFile, payloadRun,
                                      in.self, db, PROMPT_VERSION, clock),
                        api_key_set |-> out.called /\ in.api_key_set,
                        hit |-> out.hit, called |-> out.called,
                        requested |-> out.requested, result |-> out.result ]
           /\ UNCHANGED <<db, PROMPT_VERSION, clock>>

\* the call made on its own, outside an aggregate run
Generate(Inputs) ==
    /\ GenerateCall(Inputs)
    /\ UNCHANGED <<extractVars, forecastVars, aggregateVars, discoveryVars>>

\* time passes between runs
Tick ==
    /\ clock < MaxClock
    /\ clock' = clock + 1
    /\ last' = Env
    /\ UNCHANGED <<db, PROMPT_VERSION, promptFile, cacheFile, summaryFile, payloadRun, extractVars, forecastVars, aggregateVars, discoveryVars>>

\* an extraction run adds a pull request to the database
DbInsert ==
    \E r \in InsightPRRows \ db :
        /\ db' = db \cup {r}
        /\ last' = Env
        /\ UNCHANGED <<PROMPT_VERSION, clock, promptFile, cacheFile, summaryFile,
                       payloadRun, extractVars, forecastVars, aggregateVars, discoveryVars>>

\* a release bumps the module constant PROMPT_VERSION
BumpPromptVersion ==
    /\ PROMPT_VERSION < MaxPromptVersion
    /\ PROMPT_VERSION' = PROMPT_VERSION + 1
    /\ last' = Env
    /\ UNCHANGED <<db, clock, promptFile, cacheFile, summaryFile, payloadRun, extractVars, forecastVars, aggregateVars, discoveryVars>>

\* cache.json becomes unreadable (truncated write, bad JSON): json.load raises
CacheUnreadable ==
    /\ cacheFile.state = "ok"
    /\ cacheFile' = Unreadable
    /\ last' = Env
    /\ UNCHANGED <<db, PROMPT_VERSION, clock, promptFile, summaryFile, payloadRun, extractVars, forecastVars, aggregateVars, discoveryVars>>

NextInsights ==
    \/ Generate(LiveInputs)
    \/ Tick
    \/ DbInsert
    \/ BumpPromptVersion
    \/ CacheUnreadable

\* the runs of a generator used on its own: no dry run, OPENAI_API_KEY set
\* or not
DirectInputs ==
    { in \in [self : Generators, api_key_set : BOOLEAN, response : Responses] :
        /\ ~in.self.dry_run
        /\ ~in.api_key_set => in.response = NoResponse }

NextGenerator ==
    \/ Generate(DirectInputs)
    \/ Tick
    \/ DbInsert
    \/ CacheUnreadable

\* the runs whose generator answers a list of insights of any shape
ContractInputs ==
    { in \in [self : Generators, api_key_set : {TRUE},
              response : {[kind |-> "list", insights |-> l] : l \in LooseLists}] :
        ~in.self.dry_run }

NextContract ==
    \/ Generate(ContractInputs)
    \/ Tick
    \/ DbInsert

\* generate() is the only writer of the output directory
NextRuns ==
    \/ Generate(DryRunInputs)
    \/ Tick
    \/ DbInsert
    \/ BumpPromptVersion

NextDryRun ==
    \/ Generate(DryRunInputs)
    \/ Tick
    \/ DbInsert
    \/ BumpPromptVersion
    \/ CacheUnreadable

(***************************************************************************)
(* Claims about the insights cache.                                        *)
(***************************************************************************)
Ids(file) ==
    [k \in 1..Len(file.content.insights) |-> file.content.insights[k].id]

Categories(file) ==
    [k \in 1..Len(file.content.insights) |-> CategoryOf(file.content.insights[k])]

SuppliedIds ==
    UNION { {l[k].id : k \in 1..Len(l)} : l \in InsightLists }

LiveRun == last'.op = "generate" /\ ~last'.dry_run

\* C7: a run that is no dry run serves summary.json from the cache, without
\* invoking the external generator, exactly when cache.json exists and is
\* readable, holds the key of this run and is no older than cache_ttl_hours:
\* a hit writes the cached payload to summary.json and leaves cache.json; in
\* every other case (no cache, other key, expired, unreadable) it is a miss
\* and the external generator is requested.
C7_CacheHitIffValid ==
    [][ LiveRun =>
          /\ last'.hit <=> last'.valid
          /\ last'.hit =>
               /\ ~last'.called /\ ~last'.requested /\ last'.result
               /\ summaryFile' = File(cacheFile.content.insights_data)
               /\ cacheFile' = cacheFile
          /\ ~last'.hit => last'.called /\ last'.requested ]_vars

\* C7 witness: a hit on a cache entry whose age equals the TTL
C7_Witness ==
    /\ last.op = "generate" /\ last.hit
    /\ cacheFile.state = "ok"
    /\ clock - FromIsoFormat(cacheFile.content.cached_at) = 1
    /\ summaryFile = File(cacheFile.content.insights_data)

WritesSummary == last'.op = "generate" /\ last'.result

SameInputsAsBefore ==
    /\ summaryFile.state = "ok"
    /\ payloadRun.written
    /\ payloadRun.markers = FreshnessMarkers(db)
    /\ payloadRun.prompt_data = BuildPrompt(db, PROMPT_VERSION).prompt_data

\* C8 as stated: two runs with the same freshness markers and the same prompt
\* inputs write the same insight IDs, whatever the external generator returns.
C8_AsStated ==
    [][ (WritesSummary /\ SameInputsAsBefore) => Ids(summaryFile') = Ids(summaryFile) ]_vars

\* C8 amended: every ID written is category, "-", 12 hex characters of
\* sha256(category|max_closed|max_updated|PROMPT_VERSION|index in the
\* generator's list), with the markers of the run's database, on a hit as on
\* a miss, and never the generator's id; so two runs with the same markers
\* and prompt inputs write the same IDs whenever the kept insights have the
\* same categories at the same positions of the generator's list.
C8_DeterministicIds ==
    [][ WritesSummary =>
          /\ \A k \in 1..Len(summaryFile'.content.insights) :
               LET c == CategoryOf(summaryFile'.content.insights[k])
                   m == FreshnessMarkers(db)
               IN /\ summaryFile'.content.insights[k].id =
                       <<c, Sha256Hex(<<c, m.max_closed, m.max_updated,
                                        PROMPT_VERSION, payloadRun'.idx[k]>>,
                                      IdHexChars)>>
                  /\ summaryFile'.content.insights[k].id \notin SuppliedIds
          /\ ( /\ SameInputsAsBefore
               /\ payloadRun'.idx = payloadRun.idx
               /\ Categories(summaryFile') = Categories(summaryFile) )
             => Ids(summaryFile') = Ids(summaryFile) ]_vars

\* C8 witness: a cache hit serves an insight that stood second in the
\* generator's list
C8_Witness ==
    /\ last.op = "generate" /\ last.hit
    /\ Len(summaryFile.content.insights) = 1
    /\ payloadRun.idx = <<1>>
    /\ db # {}

\* C10: with the database, the model and the statistics unchanged, a cache
\* entry written under another PROMPT_VERSION has another key than this run's,
\* is a miss although it is younger than the TTL, and no insight ID written
\* by this run is an ID of the old payload.
C10_PromptVersionInvalidates ==
    [][ (LiveRun /\ last'.stale) =>
          /\ cacheFile.content.cache_key #
               GetCacheKey(BuildPrompt(db, PROMPT_VERSION).prompt_data,
                           payloadRun.model, db, PROMPT_VERSION)
          /\ ~last'.hit
          /\ last'.result =>
               \A k \in 1..Len(summaryFile'.content.insights) :
                 \A j \in 1..Len(cacheFile.content.insights_data.insights) :
                   summaryFile'.content.insights[k].id #
                     cacheFile.content.insights_data.insights[j].id ]_vars

\* C10 witness: after a bump, a run over unchanged data misses a fresh cache
\* entry and writes insights
C10_Witness ==
    /\ last.op = "generate" /\ last.stale /\ last.result
    /\ PROMPT_VERSION > InitialPromptVersion
    /\ Len(summaryFile.content.insights) >= 1

\* the cache key of a run over the empty pull_requests table
EmptyDatasetKey(model, version) ==
    Sha256Hex(<<version, model, EmptyDataset, EmptyDataset,
                Sha256Hex(CanonicalJson([prompt_version |-> version,
                                         stats |-> GetPRStats({})]),
                          PromptHashHexChars)>>,
              FullHexChars)

C9_DryRunOnlyWritesPrompt ==
    [][ (last'.op = "generate" /\ last'.dry_run) =>
          /\ promptFile'.state = "ok"
          /\ promptFile'.content.prompt = BuildPrompt(db, PROMPT_VERSION).prompt
          /\ ~last'.called /\ ~last'.requested
          /\ cacheFile' = cacheFile
          /\ summaryFile' = summaryFile
          /\ last'.result = FALSE ]_vars

\* C9 witness: a dry run over a directory that holds a valid cache entry and
\* a summary
C9_Witness ==
    /\ last.op = "generate" /\ last.dry_run /\ last.valid
    /\ promptFile.state = "ok"
    /\ cacheFile.state = "ok"
    /\ summaryFile.state = "ok"


(***************************************************************************)
(* The extraction machine: cmd_extract of cli.py.  The extractor           *)
(* (PRExtractor), the repository (PRRepository) and the configuration      *)
(* loader are modelled from the specification's sections 4.1 to 4.3.       *)
(* Dates are day numbers, day 0 being January 1 of the first year.         *)
(***************************************************************************)
NoDate == 0 - 1
NoDays == 0 - 1
NoExit == 0 - 1
YearLength == 365
FirstToday == 14
DefaultMaxPrs == 100
DefaultMaxThreads == 50

\* config.projects, in configuration order
Projects == <<"alpha", "beta">>

ProjectSet == {Projects[i] : i \in 1..Len(Projects)}

\* what the organisation holds: the pull requests of each project
RemotePRs ==
    << [ project |-> "alpha", repository_id |-> "repo-a", pull_request_id |-> 1,
         status |-> "abandoned", closed_date |-> 8, created_by |-> "u1" ],
       [ project |-> "alpha", repository_id |-> "repo-a", pull_request_id |-> 2,
         status |-> "completed", closed_date |-> 12, created_by |-> "u1" ],
       [ project |-> "beta", repository_id |-> "repo-b", pull_request_id |-> 3,
         status |-> "completed", closed_date |-> 10, created_by |-> "u2" ] >>

\* the threads of a pull request, as get_pr_threads returns them
RemoteThreads(repository_id, pull_request_id) ==
    IF <<repository_id, pull_request_id>> = <<"repo-a", 2>>
    THEN << [ keys |-> {"id", "lastUpdatedDate", "status", "comments"},
              id |-> 21, lastUpdatedDate |-> 13, status |-> "active",
              comments |-> << [ keys |-> {"id", "author"}, id |-> 211,
                                author |-> [ keys |-> {"id", "displayName"},
                                             id |-> "u2", displayName |-> "Uma" ] ] >> ],
            [ keys |-> {"id", "lastUpdatedDate", "status", "comments"},
              id |-> 20, lastUpdatedDate |-> 12, status |-> "closed",
              comments |-> << [ keys |-> {"id"}, id |-> 201 ] >> ] >>
    ELSE IF <<repository_id, pull_request_id>> = <<"repo-b", 3>>
    THEN << [ keys |-> {"id", "lastUpdatedDate", "status"},
              id |-> 30, lastUpdatedDate |-> 11, status |-> "fixed" ] >>
    ELSE <<>>

\* dict.get(key, default)
Get(d, key, default) == IF key \in d.keys THEN d[key] ELSE default

\* str(n)
Str(n) == <<"str", n>>

(* ---- WindowResolver (specification 4.1) ---- *)
\* the mutant ends the default window on the day in progress
DetermineEndDateToday(explicit_end, today_) ==
    IF explicit_end # NoDate THEN explicit_end ELSE today_

DetermineEndDate(explicit_end, today_) ==
    IF explicit_end # NoDate THEN explicit_end ELSE today_ - 1

\* the mutant resolves the watermark before the backfill
DetermineStartDateIncrementalFirst(explicit_start, backfill_days, today_, last_date) ==
    IF explicit_start # NoDate THEN explicit_start
    ELSE IF last_date # NoDate THEN last_date + 1
    ELSE IF backfill_days # NoDays THEN today_ - backfill_days
    ELSE today_ - (today_ % YearLength)

DetermineStartDate(explicit_start, backfill_days, today_, last_date) ==
    IF explicit_start # NoDate THEN explicit_start
    ELSE IF backfill_days # NoDays THEN today_ - backfill_days
    ELSE IF last_date # NoDate THEN last_date + 1
    ELSE today_ - (today_ % YearLength)

\* the mutant never takes a window for empty
WindowIsEmptyNever(start_date, end_date) == FALSE

WindowIsEmpty(start_date, end_date) == start_date > end_date

(* ---- EntityStore (specification 4.2) ---- *)
Rows(table) == BagToSet(table)

\* the mutant inserts a row whatever the table holds
UpsertAsInsert(table, row) == table (+) SetToBag({row})

\* INSERT ... ON CONFLICT(key) DO UPDATE: the row replaces the rows of its key
Upsert(table, row) ==
    LET others == {r \in Rows(table) : r.key # row.key}
    IN [r \in others |-> table[r]] (+) SetToBag({row})

PullRequestUid(repository_id, pull_request_id) == <<repository_id, pull_request_id>>

PullRequestRow(pr) ==
    [ key |-> PullRequestUid(pr.repository_id, pr.pull_request_id),
      project |-> pr.project, repository_id |-> pr.repository_id,
      pull_request_id |-> pr.pull_request_id, status |-> pr.status,
      closed_date |-> pr.closed_date, user_id |-> pr.created_by ]

UserRow(user_id, display_name) == [key |-> user_id, display_name |-> display_name]

ThreadRow(thread_id, pull_request_uid, status, last_updated) ==
    [ key |-> thread_id, pull_request_uid |-> pull_request_uid,
      status |-> status, last_updated |-> last_updated ]

CommentRow(comment_id, thread_id, pull_request_uid, author_id) ==
    [ key |-> comment_id, thread_id |-> thread_id,
      pull_request_uid |-> pull_request_uid, author_id |-> author_id ]

\* the first n pull requests of a listing, each after its author
RECURSIVE UpsertPullRequests(_, _, _)
UpsertPullRequests(store, prs, n) ==
    IF n = 0 THEN store
    ELSE LET before == UpsertPullRequests(store, prs, n - 1)
         IN [ before EXCEPT
                !.users = Upsert(@, UserRow(prs[n].created_by, prs[n].created_by)),
                !.pull_requests = Upsert(@, PullRequestRow(prs[n])) ]

\* SELECT MAX(last_updated) FROM pr_threads WHERE pull_request_uid = ?
GetThreadLastUpdated(threads_table, pull_request_uid) ==
    LET S == { r.last_updated : r \in
                 {x \in Rows(threads_table) : x.pull_request_uid = pull_request_uid} }
    IN IF S = {} THEN NoDate ELSE CHOOSE m \in S : \A x \in S : x <= m

\* the mutant advances the watermark of a failed project as well
WatermarkAfterAlways(wm, project, end_date, success) ==
    [wm EXCEPT ![project] = end_date]

\* update_extraction_metadata, after a project's extraction without error
WatermarkAfter(wm, project, end_date, success) ==
    IF success THEN [wm EXCEPT ![project] = end_date] ELSE wm


(* ---- the API client ---- *)
\* the pull requests of a project closed within the window, oldest first
list_pull_requests(project, start_date, end_date) ==
    SelectSeq(RemotePRs, LAMBDA pr : /\ pr.project = project
                                     /\ start_date <= pr.closed_date
                                     /\ pr.closed_date <= end_date)

ListCall(project, start_date, end_date) ==
    [ op |-> "list_pull_requests", project |-> project,
      start_date |-> start_date, end_date |-> end_date ]

ThreadsCall(project, repository_id, pull_request_id) ==
    [ op |-> "get_pr_threads", project |-> project,
      repository_id |-> repository_id, pull_request_id |-> pull_request_id ]

(* ---- ExtractionOrchestrator (specification 4.3): one project ---- *)
\* None, where an error message is expected
NoError == <<>>

ProjectResult(project, success, error, prs_extracted, start_date, end_date) ==
    [ project |-> project, success |-> success, error |-> error,
      prs_extracted |-> prs_extracted,
      start_date |-> start_date, end_date |-> end_date ]

\* the extraction of one project: api_ok says whether list_pull_requests
\* answers; the project's writes are one transaction, committed at its end
ExtractProjectOutcome(project, a, today_, wm, store, api_ok) ==
    LET start_date == DetermineStartDate(a.start_date, a.backfill_days, today_, wm[project])
        end_date == DetermineEndDate(a.end_date, today_)
        fetched == list_pull_requests(project, start_date, end_date)
    IN IF WindowIsEmpty(start_date, end_date)
       THEN [ watermark |-> wm, store |-> store, calls |-> <<>>,
              result |-> ProjectResult(project, TRUE, NoError, 0, start_date, end_date) ]
       ELSE [ watermark |-> WatermarkAfter(wm, project, end_date, api_ok),
              store |-> IF api_ok THEN UpsertPullRequests(store, fetched, Len(fetched))
                        ELSE store,
              calls |-> <<ListCall(project, start_date, end_date)>>,
              result |-> IF api_ok
                         THEN ProjectResult(project, TRUE, NoError, Len(fetched),
                                            start_date, end_date)
                         ELSE ProjectResult(project, FALSE,
                                            <<"Failed to extract", project>>, 0,
                                            start_date, end_date) ]

\* ExtractionSummary.success
SummarySuccess(results_) == \A i \in 1..Len(results_) : results_[i].success

\* ExtractionSummary.total_prs
RECURSIVE TotalPrs(_, _)
TotalPrs(results_, n) ==
    IF n = 0 THEN 0 ELSE TotalPrs(results_, n - 1) + results_[n].prs_extracted

(* ---- _extract_comments ---- *)
\* history: the calls of _extract_comments on the repository, the API
\* client and the connection
ReadMax(pr_uid, result) ==
    [op |-> "get_thread_last_updated", pr |-> pr_uid, result |-> result]

Fetch(pr_uid, raised) == [op |-> "get_pr_threads", pr |-> pr_uid, raised |-> raised]

UpsertThread(pr_uid, thread_id, last_updated) ==
    [op |-> "upsert_thread", pr |-> pr_uid, key |-> thread_id, last_updated |-> last_updated]

UpsertUser(pr_uid, thread_id, user_id) ==
    [op |-> "upsert_user", pr |-> pr_uid, thread_id |-> thread_id, key |-> user_id]

UpsertComment(pr_uid, comment_id, thread_id, author_id) ==
    [ op |-> "upsert_comment", pr |-> pr_uid, key |-> comment_id,
      thread_id |-> thread_id, author_id |-> author_id ]

Commit == [op |-> "commit"]

Return(stats) == [op |-> "return", stats |-> stats]

NoStats == [threads |-> 0, comments |-> 0, prs_processed |-> 0, capped |-> FALSE]

\* the rows of a set, latest closed first
RECURSIVE OrderByClosedDesc(_)
OrderByClosedDesc(rows) ==
    IF rows = {} THEN <<>>
    ELSE LET top == CHOOSE r \in rows : \A x \in rows : x.closed_date <= r.closed_date
         IN <<top>> \o OrderByClosedDesc(rows \ {top})

\* LIMIT n of SQLite: the first n rows, every row when n is negative
Limit(rows, n) ==
    IF n < 0 \/ Len(rows) < n THEN rows ELSE SubSeq(rows, 1, n)

\* SELECT ... WHERE status = 'completed' ORDER BY closed_date DESC LIMIT ?
SelectCompletedPRs(pull_requests_table, max_prs) ==
    LET rows == {r \in Rows(pull_requests_table) : r.status = "completed"}
        ordered == OrderByClosedDesc(rows)
    IN Limit(ordered, max_prs)

\* the mutant writes the comments without their authors
RECURSIVE ProcessCommentsWithoutAuthor(_, _, _, _, _)
ProcessCommentsWithoutAuthor(acc, thread_id, pr_uid, cs, n) ==
    IF n = 0 THEN acc
    ELSE LET before == ProcessCommentsWithoutAuthor(acc, thread_id, pr_uid, cs, n - 1)
             comment == cs[n]
             comment_id == Str(Get(comment, "id", ""))
             author == Get(comment, "author", [keys |-> {}])
             author_id == Get(author, "id", "unknown")
         IN [ before EXCEPT
                !.comments = Upsert(@, CommentRow(comment_id, thread_id, pr_uid, author_id)),
                !.log = Append(@, UpsertComment(pr_uid, comment_id, thread_id, author_id)),
                !.stats = [@ EXCEPT !.comments = @ + 1] ]

\* for comment in thread.get("comments", []): the first n comments
RECURSIVE ProcessComments(_, _, _, _, _)
ProcessComments(acc, thread_id, pr_uid, cs, n) ==
    IF n = 0 THEN acc
    ELSE LET before == ProcessComments(acc, thread_id, pr_uid, cs, n - 1)
             comment == cs[n]
             comment_id == Str(Get(comment, "id", ""))
             author == Get(comment, "author", [keys |-> {}])
             author_id == Get(author, "id", "unknown")
         IN [ before EXCEPT
                !.users = Upsert(@, UserRow(author_id, Get(author, "displayName", "Unknown"))),
                !.comments = Upsert(@, CommentRow(comment_id, thread_id, pr_uid, author_id)),
                !.log = @ \o << UpsertUser(pr_uid, thread_id, author_id),
                                UpsertComment(pr_uid, comment_id, thread_id, author_id) >>,
                !.stats = [@ EXCEPT !.comments = @ + 1] ]

\* the mutant skips only the threads older than the stored maximum
RECURSIVE ProcessThreadsNotStrict(_, _, _, _, _)
ProcessThreadsNotStrict(acc, pr_uid, last_updated, ts, n) ==
    IF n = 0 THEN acc
    ELSE LET before == ProcessThreadsNotStrict(acc, pr_uid, last_updated, ts, n - 1)
             thread == ts[n]
             thread_id == Str(Get(thread, "id", ""))
             thread_updated == Get(thread, "lastUpdatedDate", NoDate)
             cs == Get(thread, "comments", <<>>)
         IN IF last_updated # NoDate /\ thread_updated < last_updated
            THEN before
            ELSE ProcessComments(
                   [ before EXCEPT
                       !.threads = Upsert(@, ThreadRow(thread_id, pr_uid,
                                              Get(thread, "status", "unknown"),
                                              thread_updated)),
                       !.log = Append(@, UpsertThread(pr_uid, thread_id, thread_updated)),
                       !.stats = [@ EXCEPT !.threads = @ + 1] ],
                   thread_id, pr_uid, cs, Len(cs))

\* for thread in threads: the first n threads
RECURSIVE ProcessThreads(_, _, _, _, _)
ProcessThreads(acc, pr_uid, last_updated, ts, n) ==
    IF n = 0 THEN acc
    ELSE LET before == ProcessThreads(acc, pr_uid, last_updated, ts, n - 1)
             thread == ts[n]
             thread_id == Str(Get(thread, "id", ""))
             thread_updated == Get(thread, "lastUpdatedDate", NoDate)
             cs == Get(thread, "comments", <<>>)
         IN IF last_updated # NoDate /\ thread_updated <= last_updated
            THEN before
            ELSE ProcessComments(
                   [ before EXCEPT
                       !.threads = Upsert(@, ThreadRow(thread_id, pr_uid,
                                              Get(thread, "status", "unknown"),
                                              thread_updated)),
                       !.log = Append(@, UpsertThread(pr_uid, thread_id, thread_updated)),
                       !.stats = [@ EXCEPT !.threads = @ + 1] ],
                   thread_id, pr_uid, cs, Len(cs))

\* threads[:max_threads_per_pr] when the limit is positive and exceeded
TruncateThreads(ts, max_threads_per_pr) ==
    IF max_threads_per_pr > 0 /\ Len(ts) > max_threads_per_pr
    THEN SubSeq(ts, 1, max_threads_per_pr)
    ELSE ts

\* the mutant counts and processes a pull request whose threads could not
\* be fetched like any other
RECURSIVE ProcessPRsIgnoringFailure(_, _, _, _, _)
ProcessPRsIgnoringFailure(acc, prs, n, max_threads_per_pr, failing) ==
    IF n = 0 THEN acc
    ELSE LET before == ProcessPRsIgnoringFailure(acc, prs, n - 1, max_threads_per_pr, failing)
             pr_uid == prs[n].key
             last_updated == GetThreadLastUpdated(before.threads, pr_uid)
             called == [ before EXCEPT
                           !.calls = Append(@, ThreadsCall(Projects[1], prs[n].repository_id,
                                                           prs[n].pull_request_id)),
                           !.log = @ \o << ReadMax(pr_uid, last_updated),
                                           Fetch(pr_uid, pr_uid \in failing) >> ]
             ts == TruncateThreads(RemoteThreads(prs[n].repository_id,
                                                 prs[n].pull_request_id),
                                   max_threads_per_pr)
             done == ProcessThreads(called, pr_uid, last_updated, ts, Len(ts))
         IN [ done EXCEPT !.stats = [@ EXCEPT !.prs_processed = @ + 1] ]

\* for pr_row in prs_to_process: the first n rows; get_pr_threads raises
\* ExtractionError for the pull requests in failing
RECURSIVE ProcessPRs(_, _, _, _, _)
ProcessPRs(acc, prs, n, max_threads_per_pr, failing) ==
    IF n = 0 THEN acc
    ELSE LET before == ProcessPRs(acc, prs, n - 1, max_threads_per_pr, failing)
             pr_uid == prs[n].key
             last_updated == GetThreadLastUpdated(before.threads, pr_uid)
             called == [ before EXCEPT
                           !.calls = Append(@, ThreadsCall(Projects[1], prs[n].repository_id,
                                                           prs[n].pull_request_id)),
                           !.log = @ \o << ReadMax(pr_uid, last_updated),
                                           Fetch(pr_uid, pr_uid \in failing) >> ]
             ts == TruncateThreads(RemoteThreads(prs[n].repository_id,
                                                 prs[n].pull_request_id),
                                   max_threads_per_pr)
             done == ProcessThreads(called, pr_uid, last_updated, ts, Len(ts))
         IN IF pr_uid \in failing
            THEN called
            ELSE [ done EXCEPT !.stats = [@ EXCEPT !.prs_processed = @ + 1] ]

\* _extract_comments up to its n-th pull request
ExtractCommentsUpTo(store, max_prs, max_threads_per_pr, failing, n) ==
    LET prs_to_process == SelectCompletedPRs(store.pull_requests, max_prs)
        acc == [ users |-> store.users, threads |-> store.threads,
                 comments |-> store.comments, calls |-> <<>>, log |-> <<>>,
                 stats |-> [NoStats EXCEPT !.capped = Len(prs_to_process) >= max_prs] ]
    IN ProcessPRs(acc, prs_to_process, n, max_threads_per_pr, failing)

ExtractComments(store, max_prs, max_threads_per_pr, failing) ==
    LET done == ExtractCommentsUpTo(store, max_prs, max_threads_per_pr, failing,
                    Len(SelectCompletedPRs(store.pull_requests, max_prs)))
    IN [done EXCEPT !.log = @ \o <<Commit, Return(done.stats)>>]


(* ---- cmd_extract ---- *)
\* per_project_status: the status of every project extract_all reports
PerProjectStatus(results_) ==
    [ p \in {results_[i].project : i \in 1..Len(results_)} |->
        LET r == results_[CHOOSE i \in 1..Len(results_) :
                            /\ results_[i].project = p
                            /\ \A j \in (i + 1)..Len(results_) : results_[j].project # p]
        IN IF r.success THEN "success" ELSE "failed" ]

FirstFatalErrorLastWins(results_) ==
    LET failed == {i \in 1..Len(results_) : ~results_[i].success}
    IN IF failed = {} THEN NoError
       ELSE LET r == results_[CHOOSE i \in failed : \A j \in failed : j <= i]
            IN IF r.error # NoError THEN r.error
               ELSE <<"Extraction failed for project", r.project>>

\* first_fatal_error: the error of the first project that failed
FirstFatalError(results_) ==
    LET failed == {i \in 1..Len(results_) : ~results_[i].success}
    IN IF failed = {} THEN NoError
       ELSE LET r == results_[CHOOSE i \in failed : \A j \in failed : i <= j]
            IN IF r.error # NoError THEN r.error
               ELSE <<"Extraction failed for project", r.project>>

\* the mutant reports success whatever the projects did
FinalStatusAlwaysSuccess(results_) == "success"

\* "if not summary.success": any project failure fails the run
FinalStatus(results_) == IF ~SummarySuccess(results_) THEN "failed" ELSE "success"

RunSummary(final_status, results_, first_fatal_error, warnings) ==
    [ final_status |-> final_status,
      per_project_status |-> PerProjectStatus(results_),
      first_fatal_error |-> first_fatal_error,
      prs_fetched |-> TotalPrs(results_, Len(results_)),
      warnings |-> warnings ]

\* create_minimal_summary(message)
MinimalSummary(kind) ==
    [ final_status |-> "failed", per_project_status |-> PerProjectStatus(<<>>),
      first_fatal_error |-> <<kind>>, prs_fetched |-> 0, warnings |-> <<>> ]

\* the mutant extracts the comments of a failed run as well
CmdExtractFinishCommentsAnyway(a, results_, store, failing) ==
    LET out == IF a.include_comments
               THEN ExtractComments(store, a.comments_max_prs_per_run,
                                    a.comments_max_threads_per_pr, failing)
               ELSE [ users |-> store.users, threads |-> store.threads,
                      comments |-> store.comments, calls |-> <<>>, log |-> <<>>,
                      stats |-> NoStats ]
        failed == FinalStatus(results_) = "failed"
    IN [ exit |-> IF failed THEN 1 ELSE 0,
         store |-> [ store EXCEPT !.users = out.users, !.threads = out.threads,
                                  !.comments = out.comments ],
         calls |-> out.calls, log |-> out.log, stats |-> out.stats,
         summary |-> IF failed
                     THEN RunSummary("failed", results_, FirstFatalError(results_), <<>>)
                     ELSE RunSummary("success", results_, NoError, <<>>) ]

\* cmd_extract from the return of extract_all to its own return
CmdExtractFinish(a, results_, store, failing) ==
    IF FinalStatus(results_) = "failed"
    THEN [ exit |-> 1, store |-> store, calls |-> <<>>, log |-> <<>>, stats |-> NoStats,
           summary |-> RunSummary("failed", results_, FirstFatalError(results_), <<>>) ]
    ELSE LET out == IF a.include_comments
                    THEN ExtractComments(store, a.comments_max_prs_per_run,
                                         a.comments_max_threads_per_pr, failing)
                    ELSE [ users |-> store.users, threads |-> store.threads,
                           comments |-> store.comments, calls |-> <<>>, log |-> <<>>,
                           stats |-> NoStats ]
             warnings == IF out.stats.capped
                         THEN << <<"Comments extraction capped at",
                                   a.comments_max_prs_per_run>> >>
                         ELSE <<>>
         IN [ exit |-> 0,
              store |-> [ store EXCEPT !.users = out.users, !.threads = out.threads,
                                       !.comments = out.comments ],
              calls |-> out.calls, log |-> out.log, stats |-> out.stats,
              summary |-> RunSummary("success", results_, NoError, warnings) ]

(* ---- the arguments of a run ---- *)
NoArgs == [none |-> TRUE]

CommentArgs ==
    { [ include_comments |-> FALSE, comments_max_prs_per_run |-> DefaultMaxPrs,
        comments_max_threads_per_pr |-> DefaultMaxThreads ],
      [ include_comments |-> TRUE, comments_max_prs_per_run |-> 1,
        comments_max_threads_per_pr |-> 1 ],
      [ include_comments |-> TRUE, comments_max_prs_per_run |-> DefaultMaxPrs,
        comments_max_threads_per_pr |-> 0 ],
      [ include_comments |-> TRUE, comments_max_prs_per_run |-> 0 - 1,
        comments_max_threads_per_pr |-> DefaultMaxThreads ] }

\* --start-date, --end-date, --backfill-days: every combination of start
\* and backfill, and an explicit end
DateArgs ==
    { [start_date |-> s, end_date |-> NoDate, backfill_days |-> b] :
        s \in {NoDate, 9}, b \in {NoDays, 7} }
    \cup { [start_date |-> NoDate, end_date |-> 11, backfill_days |-> NoDays] }

Args(d, c) ==
    [ start_date |-> d.start_date, end_date |-> d.end_date,
      backfill_days |-> d.backfill_days,
      include_comments |-> c.include_comments,
      comments_max_prs_per_run |-> c.comments_max_prs_per_run,
      comments_max_threads_per_pr |-> c.comments_max_threads_per_pr ]

\* comments are extracted by the runs without explicit dates
ArgChoices ==
    { a \in {Args(d, c) : d \in DateArgs, c \in CommentArgs} :
        a.include_comments => a.start_date = NoDate /\ a.end_date = NoDate }

\* what ends cmd_extract before extract_all is called
StartOutcomes == {"ok", "Configuration error", "Database error", "Extraction error"}

Store == [ pull_requests |-> pull_requests, users |-> users,
           threads |-> threads, comments |-> comments ]

Counts(store) ==
    [ pull_requests |-> BagCardinality(store.pull_requests),
      users |-> BagCardinality(store.users),
      threads |-> BagCardinality(store.threads),
      comments |-> BagCardinality(store.comments) ]

\* history of a run at its end: its day, whether every request was answered,
\* the row counts it left, and whether it repeated a run of the same kind
Baseline(today_, clean, repeated, store) ==
    [today |-> today_, clean |-> clean, repeated |-> repeated, counts |-> Counts(store)]

\* history of a project: the start of its first successful extraction, the
\* end of its last one, and the end date of its last successful result, an
\* empty window included
NoWindows == [first_start |-> NoDate, end |-> NoDate, last_end |-> NoDate]

WindowsAfter(w, result) ==
    IF ~result.success THEN w
    ELSE IF WindowIsEmpty(result.start_date, result.end_date)
    THEN [w EXCEPT !.last_end = result.end_date]
    ELSE [ first_start |-> IF w.first_start = NoDate THEN result.start_date
                           ELSE w.first_start,
           end |-> result.end_date, last_end |-> result.end_date ]

(* ---- the machine ---- *)
InitExtract ==
    /\ today = FirstToday
    /\ watermark = [p \in ProjectSet |-> NoDate]
    /\ windows = [p \in ProjectSet |-> NoWindows]
    /\ pull_requests = EmptyBag
    /\ users = EmptyBag
    /\ threads = EmptyBag
    /\ comments = EmptyBag
    /\ pc = "idle"
    /\ args = NoArgs
    /\ projectIdx = 0
    /\ results = <<>>
    /\ apiCalls = <<>>
    /\ runSummary = Absent
    /\ exitCode = NoExit
    /\ runStart = [p \in ProjectSet |-> NoDate]
    /\ base = Baseline(FirstToday, FALSE, FALSE, [ pull_requests |-> EmptyBag, users |-> EmptyBag,
                                                   threads |-> EmptyBag, comments |-> EmptyBag ])
    /\ repeat = FALSE
    /\ ending = "none"
    /\ commentLog = <<>>

\* cmd_extract up to the call of extract_all: load_config, db.connect and
\* client.test_connection(config.projects[0])
StartRunWith(choices) ==
    /\ pc = "idle"
    /\ \E a \in choices, outcome \in StartOutcomes :
        /\ args' = a
        /\ ending' = IF outcome = "ok" THEN "none" ELSE outcome
        /\ commentLog' = <<>>
        /\ repeat' = (a = args)
        /\ runStart' = watermark
        /\ results' = <<>>
        /\ apiCalls' = IF outcome \in {"ok", "Extraction error"}
                       THEN << [op |-> "test_connection", project |-> Projects[1]] >>
                       ELSE <<>>
        /\ IF outcome = "ok"
           THEN /\ pc' = "extract"
                /\ projectIdx' = 1
                /\ exitCode' = NoExit
                /\ UNCHANGED <<runSummary, base>>
           ELSE /\ pc' = "idle"
                /\ projectIdx' = 0
                /\ exitCode' = 1
                /\ runSummary' = File(MinimalSummary(outcome))
                /\ base' = Baseline(today, FALSE, FALSE, Store)
    /\ UNCHANGED <<today, watermark, windows, pull_requests, users, threads, comments, insightVars, forecastVars, aggregateVars, discoveryVars>>

StartRun == StartRunWith(ArgChoices)

\* extract_all: the extraction of the next configured project; the history
\* of the project's windows is kept where keep_windows is set
ExtractProjectWith(keep_windows) ==
    /\ pc = "extract"
    /\ \E api_ok, with_text \in BOOLEAN :
          \E out \in {ExtractProjectOutcome(Projects[projectIdx], args, today, watermark,
                                            Store, api_ok)} :
            /\ out.calls # <<>> \/ api_ok
            /\ api_ok => with_text
            /\ watermark' = out.watermark
            /\ windows' = IF keep_windows
                           THEN [windows EXCEPT ![Projects[projectIdx]] =
                                                  WindowsAfter(@, out.result)]
                           ELSE windows
            /\ pull_requests' = out.store.pull_requests
            /\ users' = out.store.users
            /\ results' = Append(results, IF with_text THEN out.result
                                          ELSE [out.result EXCEPT !.error = NoError])
            /\ apiCalls' = apiCalls \o out.calls
    /\ IF projectIdx < Len(Projects)
       THEN /\ projectIdx' = projectIdx + 1
            /\ pc' = "extract"
       ELSE /\ projectIdx' = 0
            /\ pc' = "finish"
    /\ UNCHANGED <<today, threads, comments, args, runSummary, exitCode, runStart,
                   base, repeat, ending, commentLog, insightVars, forecastVars, aggregateVars, discoveryVars>>

ExtractProject == ExtractProjectWith(FALSE)

\* cmd_extract after extract_all: statuses, comments, run summary, exit code
FinishRun ==
    /\ pc = "finish"
    /\ LET selected == IF SummarySuccess(results) /\ args.include_comments
                       THEN SelectCompletedPRs(pull_requests, args.comments_max_prs_per_run)
                       ELSE <<>>
       IN \E failing \in SUBSET {selected[i].key : i \in 1..Len(selected)} :
          \E out \in {CmdExtractFinish(args, results, Store, failing)} :
            /\ users' = out.store.users
            /\ threads' = out.store.threads
            /\ comments' = out.store.comments
            /\ apiCalls' = apiCalls \o out.calls
            /\ runSummary' = File(out.summary)
            /\ exitCode' = out.exit
            /\ commentLog' = out.log
            /\ base' = LET clean == SummarySuccess(results) /\ failing = {}
                       IN Baseline(today, clean,
                                   clean /\ repeat /\ base.clean /\ base.today = today,
                                   out.store)
    /\ pc' = "idle"
    /\ ending' = "returned"
    /\ UNCHANGED <<today, watermark, windows, pull_requests, args, projectIdx, results, runStart,
                   repeat, insightVars, forecastVars, aggregateVars, discoveryVars>>

\* midnight passes between two runs
AdvanceDay ==
    /\ pc = "idle"
    /\ today < MaxToday
    /\ today' = today + 1
    /\ UNCHANGED <<watermark, windows, pull_requests, users, threads, comments, pc, args,
                   projectIdx, results, apiCalls, runSummary, exitCode, runStart,
                   base, repeat, ending, commentLog, insightVars, forecastVars, aggregateVars, discoveryVars>>

NextExtract ==
    \/ StartRun
    \/ ExtractProject
    \/ FinishRun
    \/ AdvanceDay

\* the incremental runs: no --start-date and no --backfill-days
IncrementalRuns ==
    { a \in ArgChoices :
        ~a.include_comments /\ a.start_date = NoDate /\ a.backfill_days = NoDays }

StartIncrementalRun == StartRunWith(IncrementalRuns)

ExtractProjectOfSequence == ExtractProjectWith(TRUE)

NextIncremental ==
    \/ StartIncrementalRun
    \/ ExtractProjectOfSequence
    \/ FinishRun
    \/ AdvanceDay

(* ---- main: what escapes cmd_extract ---- *)
ExitCancelled == 130

\* the exceptions cmd_extract does not catch
Uncaught == {"Operation cancelled by user", "Unexpected error"}

MainHandlerCancelFails(summary_file, kind) ==
    [ exit |-> 1,
      summary |-> IF summary_file = Absent THEN File(MinimalSummary(kind))
                  ELSE summary_file ]

\* the handlers of main: a minimal summary, written only when no
\* run_summary.json exists in the artifacts directory
MainHandler(summary_file, kind) ==
    [ exit |-> IF kind = "Operation cancelled by user" THEN ExitCancelled ELSE 1,
      summary |-> IF summary_file = Absent THEN File(MinimalSummary(kind))
                  ELSE summary_file ]

\* KeyboardInterrupt or another exception leaves cmd_extract during the run
Interrupt ==
    /\ pc \in {"extract", "finish"}
    /\ \E kind \in Uncaught :
        \E out \in {MainHandler(runSummary, kind)} :
            /\ runSummary' = out.summary
            /\ exitCode' = out.exit
            /\ ending' = kind
    /\ pc' = "idle"
    /\ projectIdx' = 0
    /\ base' = Baseline(today, FALSE, FALSE, Store)
    /\ UNCHANGED <<today, watermark, windows, pull_requests, users, threads, comments, args,
                   results, apiCalls, runStart, repeat, commentLog, insightVars,
                   forecastVars, aggregateVars, discoveryVars>>

Raise(kind) == [op |-> "raise", kind |-> kind]

\* the mutant keeps what the batch wrote before the exception
CloseKeepingWrites(store, out) ==
    [store EXCEPT !.users = out.users, !.threads = out.threads, !.comments = out.comments]

\* db.close() in the finally clause of cmd_extract, no commit having been
\* issued since the batch began: the writes of the batch are dropped
CloseWithoutCommit(store, out) == store

\* an exception other than ExtractionError leaves _extract_comments after
\* its n-th pull request: DatabaseError is caught by cmd_extract, the others
\* by main
AbortComments ==
    /\ pc = "finish"
    /\ SummarySuccess(results)
    /\ args.include_comments
    /\ LET selected == SelectCompletedPRs(pull_requests, args.comments_max_prs_per_run)
       IN \E n \in 0..Len(selected), kind \in {"Database error"} \cup Uncaught :
          \E failing \in SUBSET {selected[i].key : i \in 1..n} :
          \E out \in {ExtractCommentsUpTo(Store, args.comments_max_prs_per_run,
                                           args.comments_max_threads_per_pr, failing, n)} :
          \E closed \in {CloseWithoutCommit(Store, out)} :
            /\ users' = closed.users
            /\ threads' = closed.threads
            /\ comments' = closed.comments
            /\ apiCalls' = apiCalls \o out.calls
            /\ commentLog' = Append(out.log, Raise(kind))
            /\ ending' = kind
            /\ IF kind = "Database error"
               THEN /\ runSummary' = File(MinimalSummary(kind))
                    /\ exitCode' = 1
               ELSE \E handled \in {MainHandler(runSummary, kind)} :
                    /\ runSummary' = handled.summary
                    /\ exitCode' = handled.exit
            /\ base' = Baseline(today, FALSE, FALSE, closed)
    /\ pc' = "idle"
    /\ UNCHANGED <<today, watermark, windows, pull_requests, args, projectIdx, results, runStart,
                   repeat, insightVars, forecastVars, aggregateVars, discoveryVars>>

\* the runs of one day, each of which may be interrupted
NextMain ==
    \/ StartRun
    \/ ExtractProject
    \/ FinishRun
    \/ Interrupt

\* the runs with --include-comments and no explicit dates
CommentRuns == {a \in ArgChoices : a.include_comments /\ a.backfill_days = NoDays}

StartCommentsRun == StartRunWith(CommentRuns)

\* the runs that extract comments, each of which may abort in its batch
NextComments ==
    \/ StartCommentsRun
    \/ ExtractProject
    \/ FinishRun
    \/ AbortComments
    \/ AdvanceDay

(***************************************************************************)
(* The fallback forecaster (ml/fallback_forecaster.py).                    *)
(*                                                                         *)
(* A float is a fixed-point number of thousandths: 10.0 is 10000.  Square  *)
(* roots are taken on hundredths, so a standard deviation is exact to      *)
(* 0.01.  NaN is a value of its own, outside the range of the data.        *)
(***************************************************************************)
MaxWeeks == 9
MaxClipLen == 21

PREDICTIONS_SCHEMA_VERSION == 1
FORECAST_GENERATOR_ID == "linear-v1.0"
HORIZON_WEEKS == 4
LowConfidenceHorizon == 2
MIN_WEEKS_REQUIRED == 4
LOW_CONFIDENCE_THRESHOLD == 8
OUTLIER_STD_THRESHOLD == 3
Confidence95 == 196
Confidence99 == 258
METRICS == << <<"pr_throughput", "count">>, <<"cycle_time_minutes", "minutes">> >>

One == 1000
NaN == 0 - 2000000000
IsNaN(v) == v = NaN

Max0(v) == IF v > 0 THEN v ELSE 0

RECURSIVE SumSeq(_, _)
SumSeq(s, n) == IF n = 0 THEN 0 ELSE SumSeq(s, n - 1) + s[n]

\* the integer part of v / d, towards zero
Quot(v, d) == IF v >= 0 THEN v \div d ELSE 0 - ((0 - v) \div d)

RECURSIVE IsqrtBetween(_, _, _)
IsqrtBetween(n, lo, hi) ==
    IF lo >= hi THEN lo
    ELSE LET mid == (lo + hi + 1) \div 2
         IN IF mid * mid <= n THEN IsqrtBetween(n, mid, hi)
            ELSE IsqrtBetween(n, lo, mid - 1)

\* the square root of n, rounded down
Isqrt(n) == IsqrtBetween(n, 0, 46340)

\* the values of a that are numbers, in order (a[~np.isnan(a)])
DropNaN(a) == SelectSeq(a, LAMBDA v : ~IsNaN(v))

\* np.nanmean
NanMean(a) ==
    LET f == DropNaN(a)
    IN IF Len(f) = 0 THEN NaN ELSE Quot(SumSeq(f, Len(f)), Len(f))

\* sqrt(sum((v - mean)^2) / divisor) over a sequence of numbers
RootMeanSquare(f, mean, divisor) ==
    LET sq == [i \in 1..Len(f) |-> Quot(f[i] - mean, 10) * Quot(f[i] - mean, 10)]
    IN 10 * Isqrt(SumSeq(sq, Len(f)) \div divisor)

\* np.nanstd: the population standard deviation of the numbers of a
NanStd(a) ==
    LET f == DropNaN(a)
    IN IF Len(f) = 0 THEN NaN ELSE RootMeanSquare(f, NanMean(a), Len(f))

\* np.clip(a, lo, hi): NaN stays NaN
NpClip(a, lo, hi) ==
    [i \in 1..Len(a) |->
        IF IsNaN(a[i]) \/ IsNaN(lo) THEN NaN
        ELSE IF a[i] < lo THEN lo
        ELSE IF a[i] > hi THEN hi
        ELSE a[i]]

ClipOutliersOneStd(values, std_threshold) ==
    IF Len(values) < 2 THEN values
    ELSE LET mean == NanMean(values)
             std == NanStd(values)
         IN IF std = 0 THEN values
            ELSE IF IsNaN(std) THEN NpClip(values, NaN, NaN)
            ELSE NpClip(values, mean - std, mean + std)

clip_outliers(values, std_threshold) ==
    IF Len(values) < 2 THEN values
    ELSE LET mean == NanMean(values)
             std == NanStd(values)
         IN IF std = 0 THEN values
            ELSE IF IsNaN(std) THEN NpClip(values, NaN, NaN)
            ELSE NpClip(values, mean - std_threshold * std, mean + std_threshold * std)

(* ---- assess_data_quality ---- *)
assess_data_quality(weeks_available) ==
    [ status |-> IF weeks_available < MIN_WEEKS_REQUIRED THEN "insufficient"
                 ELSE IF weeks_available < LOW_CONFIDENCE_THRESHOLD THEN "low_confidence"
                 ELSE "normal",
      weeks_available |-> weeks_available ]

(* ---- _calculate_horizon ---- *)
CalculateHorizonFixed(data_quality) == HORIZON_WEEKS

CalculateHorizon(data_quality) ==
    IF data_quality = None THEN HORIZON_WEEKS
    ELSE IF data_quality.status = "low_confidence"
         THEN (IF HORIZON_WEEKS < LowConfidenceHorizon THEN HORIZON_WEEKS
               ELSE LowConfidenceHorizon)
         ELSE HORIZON_WEEKS

\* the confidence multiplier of _forecast_metric, in hundredths
ConfidenceMultiplier(data_quality) ==
    IF data_quality # None /\ data_quality.status = "low_confidence"
    THEN Confidence99 ELSE Confidence95

(* ---- dates ---- *)
\* date.weekday(): Monday is 0; day 0 (2026-01-01) is a Thursday
Weekday(d) == (d + 3) % 7

\* date_utils.align_to_monday: the Monday of the week of d
align_to_monday(d) == d - Weekday(d)

NextMondayAlwaysLater(today_) == today_ + (7 - Weekday(today_))

\* next_monday of _forecast_metric
NextMonday(today_) ==
    LET next_monday == today_ + ((7 - Weekday(today_)) % 7)
    IN IF Weekday(today_) = 0 THEN today_ ELSE next_monday

(* ---- np.polyfit(x, y, 1) over x = 0 .. n-1 and np.polyval ---- *)
Polyfit(y) ==
    LET n == Len(y)
        sx == SumSeq([i \in 1..n |-> i - 1], n)
        sxx == SumSeq([i \in 1..n |-> (i - 1) * (i - 1)], n)
        sy == SumSeq(y, n)
        sxy == SumSeq([i \in 1..n |-> (i - 1) * y[i]], n)
        den == n * sxx - sx * sx
    IN [ slope |-> Quot(n * sxy - sx * sy, den),
         intercept |-> Quot(sy * sxx - sx * sxy, den) ]

Polyval(coeffs, x) == coeffs.slope * x + coeffs.intercept

\* np.std(residuals, ddof=1)
SampleStd(r) ==
    RootMeanSquare(r, Quot(SumSeq(r, Len(r)), Len(r)), Len(r) - 1)

\* round(v, 2): to hundredths, ties to even
Round2(v) ==
    LET q == v \div 10
        r == v % 10
    IN IF r > 5 THEN 10 * (q + 1)
       ELSE IF r < 5 THEN 10 * q
       ELSE IF q % 2 = 0 THEN 10 * q ELSE 10 * (q + 1)

(* ---- _forecast_metric ---- *)
ColumnOf(metric) ==
    IF metric = "pr_throughput" THEN "pr_count" ELSE "cycle_time_p50"

Column(df, column) == [i \in 1..Len(df) |-> df[i][column]]

ForecastValue(coeffs, margin, future_x, period_start) ==
    [ period_start |-> period_start,
      predicted |-> Round2(Max0(Polyval(coeffs, future_x))),
      lower_bound |-> Round2(Max0(Polyval(coeffs, future_x) - margin)),
      upper_bound |-> Round2(Polyval(coeffs, future_x) + margin) ]

\* the mutant takes the horizon from the number of points of the metric
FitAndProjectOwnHorizon(y_values, metric, unit, data_quality, today_) ==
    LET coeffs == Polyfit(y_values)
        residuals == [i \in 1..Len(y_values) |-> y_values[i] - Polyval(coeffs, i - 1)]
        residual_se == IF Len(residuals) > 1 THEN SampleStd(residuals) ELSE 0
        margin == Quot(ConfidenceMultiplier(data_quality) * residual_se, 100)
        horizon == CalculateHorizon(assess_data_quality(Len(y_values)))
    IN [ metric |-> metric, unit |-> unit, horizon_weeks |-> horizon,
         values |-> [i \in 1..horizon |->
             ForecastValue(coeffs, margin, Len(y_values) + i - 1,
                           IsoFormat(align_to_monday(NextMonday(today_) + 7 * (i - 1))))] ]

\* _forecast_metric from the regression to the returned dict
FitAndProject(y_values, metric, unit, data_quality, today_) ==
    LET coeffs == Polyfit(y_values)
        residuals == [i \in 1..Len(y_values) |-> y_values[i] - Polyval(coeffs, i - 1)]
        residual_se == IF Len(residuals) > 1 THEN SampleStd(residuals) ELSE 0
        margin == Quot(ConfidenceMultiplier(data_quality) * residual_se, 100)
        horizon == CalculateHorizon(data_quality)
    IN [ metric |-> metric, unit |-> unit, horizon_weeks |-> horizon,
         values |-> [i \in 1..horizon |->
             ForecastValue(coeffs, margin, Len(y_values) + i - 1,
                           IsoFormat(align_to_monday(NextMonday(today_) + 7 * (i - 1))))] ]

\* the numeric points of the metric's column after clipping
NumericPoints(df, metric) ==
    DropNaN(clip_outliers(Column(df, ColumnOf(metric)), OUTLIER_STD_THRESHOLD))

ForecastMetricAnyLength(df, metric, unit, data_quality, today_) ==
    IF Len(NumericPoints(df, metric)) < 2 THEN None
    ELSE FitAndProject(NumericPoints(df, metric), metric, unit, data_quality, today_)

\* None when the metric has too few numeric points
ForecastMetric(df, metric, unit, data_quality, today_) ==
    IF Len(NumericPoints(df, metric)) < MIN_WEEKS_REQUIRED THEN None
    ELSE FitAndProject(NumericPoints(df, metric), metric, unit, data_quality, today_)

(* ---- _write_predictions ---- *)
WritePredictions(forecasts, data_quality, now) ==
    [ file |-> File([ schema_version |-> PREDICTIONS_SCHEMA_VERSION,
                      generated_at |-> IsoFormat(now),
                      is_stub |-> FALSE,
                      generated_by |-> FORECAST_GENERATOR_ID,
                      forecaster |-> "linear",
                      data_quality |-> data_quality,
                      forecasts |-> forecasts ]),
      returned |-> TRUE ]

(* ---- FallbackForecaster.generate ---- *)
\* the loop over METRICS: a metric that raises or returns None adds nothing
RECURSIVE ForecastLoop(_, _, _, _, _)
ForecastLoop(df, data_quality, today_, raises, n) ==
    IF n = 0 THEN <<>>
    ELSE LET metric == METRICS[n][1]
             forecast_data == ForecastMetric(df, metric, METRICS[n][2], data_quality, today_)
         IN ForecastLoop(df, data_quality, today_, raises, n - 1)
            \o (IF metric \in raises THEN <<>>
                ELSE IF Truthy(forecast_data) THEN <<forecast_data>>
                ELSE <<>>)

ForecastGenerateSkipsEmpty(df, today_, raises) ==
    LET weeks_available == IF df # <<>> THEN Len(df) ELSE 0
        data_quality == assess_data_quality(weeks_available)
        forecasts == ForecastLoop(df, data_quality, today_, raises, Len(METRICS))
    IN IF df = <<>> \/ data_quality.status = "insufficient" \/ forecasts = <<>>
       THEN [ data_quality |-> data_quality, file |-> Absent, returned |-> FALSE ]
       ELSE [ data_quality |-> data_quality,
              file |-> WritePredictions(forecasts, data_quality.status, today_).file,
              returned |-> TRUE ]

\* df is the frame of _get_weekly_metrics, raises the metrics whose
\* computation raises an exception in this call
ForecastGenerate(df, today_, raises) ==
    LET weeks_available == IF df # <<>> THEN Len(df) ELSE 0
        data_quality == assess_data_quality(weeks_available)
        forecasts == ForecastLoop(df, data_quality, today_, raises, Len(METRICS))
        written == IF df = <<>> \/ data_quality.status = "insufficient"
                   THEN WritePredictions(<<>>, data_quality.status, today_)
                   ELSE IF forecasts = <<>>
                   THEN WritePredictions(<<>>, data_quality.status, today_)
                   ELSE WritePredictions(forecasts, data_quality.status, today_)
    IN [ data_quality |-> data_quality, file |-> written.file,
         returned |-> written.returned ]

(***************************************************************************)
(* The inputs of the forecaster: weekly frames of every length up to       *)
(* MaxWeeks, each column following one of a few shapes, and every weekday  *)
(* as the generation date.                                                 *)
(***************************************************************************)
PrShapes == {"flat", "rising", "falling", "noisy", "collapsing"}
CycleShapes == {"flat", "rising", "falling", "sparse", "missing"}

\* the number of PRs completed in week i of n
PrCount(shape, i, n) ==
    IF shape = "flat" THEN 3
    ELSE IF shape = "rising" THEN i
    ELSE IF shape = "falling" THEN n - i + 1
    ELSE IF shape = "noisy" THEN 2 + ((i * i) % 3)
    ELSE IF 2 * i <= n THEN 6 ELSE 1

\* the median cycle time of week i of n, NaN when no PR of the week has one
CycleTime(shape, i, n) ==
    IF shape = "flat" THEN 60 * One
    ELSE IF shape = "rising" THEN (30 + 10 * i) * One
    ELSE IF shape = "falling" THEN 15 * (n - i + 1) * One
    ELSE IF shape = "sparse" THEN (IF i % 2 = 1 THEN NaN ELSE (40 + 5 * i) * One)
    ELSE NaN

WeeklyFrame(n, prShape, cycleShape) ==
    [i \in 1..n |-> [ week_start |-> align_to_monday(7 * i),
                      pr_count |-> PrCount(prShape, i, n) * One,
                      cycle_time_p50 |-> CycleTime(cycleShape, i, n) ]]

WeeklyFrames ==
    {WeeklyFrame(n, p, c) : n \in 0..MaxWeeks, p \in PrShapes, c \in CycleShapes}

FirstForecastDay == 14
ForecastDays == FirstForecastDay..(FirstForecastDay + 6)

MetricNames == {METRICS[i][1] : i \in 1..Len(METRICS)}

NoForecast == [called |-> FALSE]

(***************************************************************************)
(* The inputs of clip_outliers: a run of equal values followed by one      *)
(* other value, and a sawtooth, of every length up to MaxClipLen.          *)
(***************************************************************************)
ClipLast == {10 * One, 12 * One, 100 * One, 0 - 80 * One, 40 * One, NaN}

ClipSeries ==
    {[i \in 1..n |-> IF i < n THEN 10 * One ELSE v] : n \in 0..MaxClipLen, v \in ClipLast}
    \cup {[i \in 1..n |-> IF i = 1 THEN v ELSE (10 + (i % 3)) * One] :
              n \in 0..MaxClipLen, v \in ClipLast}

NotCalled == [called |-> FALSE]

(***************************************************************************)
(* The forecaster as a state machine.                                      *)
(***************************************************************************)
\* the forecaster at rest, for the specifications of the other machines
InitForecastIdle ==
    /\ weekly = <<>>
    /\ forecastDay = FirstForecastDay
    /\ trendsFile = Absent
    /\ dataQuality = None
    /\ lastForecast = NoForecast
    /\ clipIn = <<>>
    /\ clipOut = NotCalled

\* a forecaster constructed over some database on some day
InitForecast ==
    /\ weekly \in WeeklyFrames
    /\ forecastDay \in ForecastDays
    /\ trendsFile = Absent
    /\ dataQuality = None
    /\ lastForecast = NoForecast
    /\ clipIn = <<>>
    /\ clipOut = NotCalled

\* an array about to be clipped
InitClip ==
    /\ weekly = <<>>
    /\ forecastDay = FirstForecastDay
    /\ trendsFile = Absent
    /\ dataQuality = None
    /\ lastForecast = NoForecast
    /\ clipIn \in ClipSeries
    /\ clipOut = NotCalled

\* one call of FallbackForecaster.generate()
ForecastCall ==
    \E raises \in SUBSET MetricNames :
      \E out \in {ForecastGenerate(weekly, forecastDay, raises)} :
        /\ trendsFile' = out.file
        /\ dataQuality' = out.data_quality
        /\ lastForecast' = [ called |-> TRUE, returned |-> out.returned,
                             raises |-> raises,
                             multiplier |-> ConfidenceMultiplier(out.data_quality) ]
        /\ UNCHANGED <<weekly, forecastDay, clipIn, clipOut>>

\* the call made on its own, outside an aggregate run
Forecast ==
    /\ ForecastCall
    /\ UNCHANGED <<insightVars, extractVars, aggregateVars, discoveryVars>>

\* one call of clip_outliers with the default threshold
Clip ==
    /\ clipOut' = [called |-> TRUE, result |-> clip_outliers(clipIn, OUTLIER_STD_THRESHOLD)]
    /\ UNCHANGED <<weekly, forecastDay, trendsFile, dataQuality, lastForecast, clipIn,
                   insightVars, extractVars, aggregateVars, discoveryVars>>

NextForecast == Forecast

NextClip == Clip

(***************************************************************************)
(* The aggregate run (cli.py cmd_generate_aggregates, generate_all): the   *)
(* two engines are called when enabled and the manifest records which of   *)
(* them produced its artifact.                                             *)
(***************************************************************************)
\* what the forecast engine does when called: it runs to its return, it
\* raises, or it returns False without writing
ForecastOutcomes == {"runs", "raises", "returns false"}

NoAggregate == [called |-> FALSE]

ManifestFeaturesAsRequested(enable_predictions, predictions_generated, enable_insights, insights_generated) ==
    [ predictions |-> enable_predictions, ai_insights |-> enable_insights ]

\* Manifest.features
ManifestFeatures(enable_predictions, predictions_generated, enable_insights, insights_generated) ==
    [ predictions |-> enable_predictions /\ predictions_generated,
      ai_insights |-> enable_insights /\ insights_generated ]

InitAggregate ==
    /\ manifest = Absent
    /\ lastAggregate = NoAggregate

\* the body of generate_all: the engines that are enabled, then the manifest
GenerateAllCall(enable_predictions, enable_insights, engine, Inputs) ==
    /\ IF enable_predictions /\ engine = "runs"
       THEN ForecastCall
       ELSE UNCHANGED forecastVars
    /\ IF enable_insights
       THEN GenerateCall(Inputs)
       ELSE /\ last' = Op("aggregate")
            /\ UNCHANGED <<db, PROMPT_VERSION, clock, promptFile, cacheFile,
                           summaryFile, payloadRun>>
    /\ manifest' = File([ features |->
           ManifestFeatures(enable_predictions,
                            enable_predictions /\ engine = "runs" /\ lastForecast'.returned,
                            enable_insights,
                            enable_insights /\ last'.result) ])

\* AggregateGenerator(...).generate_all()
GenerateAll ==
    \E enable_predictions, enable_insights \in BOOLEAN, engine \in ForecastOutcomes :
        /\ GenerateAllCall(enable_predictions, enable_insights, engine, DryRunInputs)
        /\ lastAggregate' = [ called |-> TRUE,
                              enable_predictions |-> enable_predictions,
                              enable_insights |-> enable_insights,
                              engine |-> IF enable_predictions THEN engine ELSE "not called" ]
        /\ UNCHANGED <<extractVars, discoveryVars>>

NextAggregate ==
    \/ GenerateAll
    \/ DbInsert

(***************************************************************************)
(* The aggregate commands (cli.py cmd_generate_aggregates and              *)
(* cmd_build_aggregates under main): the checks made before the database   *)
(* is opened, the run of generate_all, and the exit code.  An exception    *)
(* of generate_all is taken to be raised before any artifact is written.   *)
(***************************************************************************)
AggregateCommands == {"generate-aggregates", "build-aggregates"}

DatabaseNotFound == "Database not found"

ApiKeyRequired == "OPENAI_API_KEY is required for --enable-insights"

SdkNotInstalled == "OpenAI SDK not installed"

AggregateComplete == "Aggregate generation complete"

\* the checks in the order the commands make them; build-aggregates has no
\* --insights-dry-run
AggregateValidation(command, database_exists, enable_insights, dry_run, key_set, sdk_installed) ==
    IF ~database_exists THEN DatabaseNotFound
    ELSE IF enable_insights /\ ~key_set /\ (command = "build-aggregates" \/ ~dry_run)
         THEN ApiKeyRequired
    ELSE IF enable_insights /\ ~sdk_installed THEN SdkNotInstalled
    ELSE "ok"

\* the exceptions a command catches itself and logs under their own name
AggregateHandled(command) ==
    IF command = "generate-aggregates"
    THEN {"Database error", "Stub generation error", "Aggregation error"}
    ELSE {"Database error", "Aggregation error"}

\* what can be raised once the database is opened
AggregateRaises ==
    {"none", "Database error", "Stub generation error", "Aggregation error"} \cup Uncaught

\* what main sees of an exception the command did not catch
UncaughtKind(raised) ==
    IF raised = "Operation cancelled by user" THEN raised ELSE "Unexpected error"

AggregateRun(command, f, message, exit, db_opened) ==
    [ called |-> TRUE, command |-> command, enable_insights |-> f.enable_insights,
      dry_run |-> f.dry_run, key_set |-> f.key_set,
      message |-> message, exit |-> exit, db_opened |-> db_opened ]

\* the feature flags of a command and what they meet in the environment; the
\* flags of the insights engine are read only with --enable-insights
AggregateFlags ==
    { f \in [ enable_predictions : BOOLEAN, enable_insights : BOOLEAN, dry_run : BOOLEAN,
              key_set : BOOLEAN, sdk_installed : BOOLEAN ] :
        f.enable_insights \/ (~f.dry_run /\ f.key_set /\ f.sdk_installed) }

\* the commands run without the ML features
PlainFlags == { f \in AggregateFlags : ~f.enable_predictions /\ ~f.enable_insights }

\* the insights runs a command draws: an external generator that fails or
\* answers one insight
CommandInputs ==
    { in \in RunInputs :
        in.response \in {NoResponse, [kind |-> "list", insights |-> <<EntryTrendA>>]} }

CmdAggregateWith(Flags) ==
    /\ pc = "idle"
    /\ \E command \in AggregateCommands, f \in Flags, database_exists \in BOOLEAN :
        /\ command = "build-aggregates" => ~f.dry_run
        /\ \E v \in {AggregateValidation(command, database_exists, f.enable_insights, f.dry_run, f.key_set, f.sdk_installed)} :
            IF v # "ok"
            THEN /\ lastAggregate' = AggregateRun(command, f, v, 1, FALSE)
                 /\ UNCHANGED <<insightVars, extractVars, forecastVars, manifest, discoveryVars>>
            ELSE \E raised \in AggregateRaises :
                 IF raised \in AggregateHandled(command)
                 THEN /\ lastAggregate' = AggregateRun(command, f, raised, 1, TRUE)
                      /\ UNCHANGED <<insightVars, extractVars, forecastVars, manifest, discoveryVars>>
                 ELSE IF raised # "none"
                 THEN \E out \in {MainHandler(runSummary, UncaughtKind(raised))} :
                      /\ lastAggregate' = AggregateRun(command, f, UncaughtKind(raised), out.exit, TRUE)
                      /\ runSummary' = out.summary
                      /\ UNCHANGED <<today, watermark, windows, pull_requests, users, threads, comments, pc,
                                     args, projectIdx, results, apiCalls, exitCode, runStart,
                                     base, repeat, ending, commentLog>>
                      /\ UNCHANGED <<insightVars, forecastVars, manifest, discoveryVars>>
                 ELSE \E engine \in ForecastOutcomes :
                      /\ f.enable_predictions \/ engine = "runs"
                      /\ GenerateAllCall(f.enable_predictions, f.enable_insights, engine,
                             { in \in CommandInputs : in.self.dry_run = f.dry_run /\ in.api_key_set = f.key_set })
                      /\ lastAggregate' = AggregateRun(command, f, AggregateComplete, 0, TRUE)
                      /\ UNCHANGED <<extractVars, discoveryVars>>

CmdAggregate == CmdAggregateWith(AggregateFlags)

NextCommands == CmdAggregate

(***************************************************************************)
(* The commands of one installation, one after another: extract with one   *)
(* set of arguments, and the aggregate commands without the ML features.   *)
(***************************************************************************)
PlainArgs ==
    { a \in ArgChoices :
        /\ ~a.include_comments
        /\ a.start_date = NoDate /\ a.end_date = NoDate /\ a.backfill_days = NoDays }

CmdExtractStart == StartRunWith(PlainArgs)

CmdAggregatePlain == CmdAggregateWith(PlainFlags)

NextCli ==
    \/ CmdExtractStart
    \/ ExtractProject
    \/ FinishRun
    \/ Interrupt
    \/ CmdAggregatePlain

(***************************************************************************)
(* Dataset discovery (utils/dataset_discovery.py).  A path is the sequence *)
(* of its components, absolute when it begins with the root.  A manifest   *)
(* file is absent, cannot be opened (OSError), holds bytes that are not    *)
(* UTF-8, holds text that is not JSON, or holds a JSON value.              *)
(***************************************************************************)
CANDIDATE_PATHS == <<".", "aggregates", "aggregates/aggregates", "dataset">>

Root == "/"
Cwd == <<Root, "work">>

Path(parts) == [parts |-> parts]

\* the components of a candidate; pathlib drops "."
Components(candidate) ==
    IF candidate = "." THEN <<>>
    ELSE IF candidate = "aggregates/aggregates" THEN <<"aggregates", "aggregates">>
    ELSE <<candidate>>

\* run_artifacts_dir / candidate
Join(path, candidate) == Path(path.parts \o Components(candidate))

\* Path.resolve(), there being no symbolic links
Resolve(path) ==
    IF path.parts # <<>> /\ path.parts[1] = Root THEN path ELSE Path(Cwd \o path.parts)

(* ---- the files ---- *)
CannotOpen == [state |-> "os_error"]
NotUtf8 == [state |-> "not_utf8"]
NotJson == [state |-> "not_json"]
Json(value) == [state |-> "json", value |-> value]

\* the values of aggregate_index
IndexValues == {"object", "empty_object", "empty_array", "null", "zero", "array"}

\* bool(agg_index)
TruthyIndex(v) == v \in {"object", "array"}

JsonObjects ==
    { [type |-> "object", schema_version |-> sv, aggregate_index |-> ai] :
        sv \in BOOLEAN, ai \in IndexValues \cup {"missing"} }

\* null, a number, true, and the strings and arrays that hold
\* "schema_version" or do not
JsonValues ==
    JsonObjects
    \cup { [type |-> t] : t \in {"null", "number", "boolean"} }
    \cup { [type |-> t, schema_version |-> sv] : t \in {"string", "array"}, sv \in BOOLEAN }

ManifestFiles == {Absent, CannotOpen, NotUtf8, NotJson} \cup {Json(v) : v \in JsonValues}

Returned(value) == [raised |-> "none", value |-> value]
Raised(kind) == [raised |-> kind]

\* open(encoding="utf-8") and json.load
JsonLoad(file) ==
    IF file.state = "os_error" THEN Raised("OSError")
    ELSE IF file.state = "not_utf8" THEN Raised("UnicodeDecodeError")
    ELSE IF file.state = "not_json" THEN Raised("JSONDecodeError")
    ELSE Returned(file.value)

(* ---- find_dataset_roots ---- *)
\* the loop over CANDIDATE_PATHS, up to the n-th candidate
RECURSIVE FindLoop(_, _)
FindLoop(dir, n) ==
    IF n = 0 THEN Returned(<<>>)
    ELSE LET before == FindLoop(dir, n - 1)
             candidate_path == Join(dir.path, CANDIDATE_PATHS[n])
             loaded == JsonLoad(dir.manifests[n])
         IN IF before.raised # "none" THEN before
            ELSE IF dir.manifests[n] = Absent THEN before
            ELSE IF loaded.raised \in {"JSONDecodeError", "OSError"} THEN before
            ELSE IF loaded.raised # "none" THEN Raised(loaded.raised)
            ELSE Returned(Append(before.value, Resolve(candidate_path)))

find_dataset_roots(run_artifacts_dir) ==
    IF ~run_artifacts_dir.exists THEN Returned(<<>>)
    ELSE FindLoop(run_artifacts_dir, Len(CANDIDATE_PATHS))

(* ---- get_best_dataset_root ---- *)
get_best_dataset_root(run_artifacts_dir) ==
    LET roots == find_dataset_roots(run_artifacts_dir)
    IN IF roots.raised # "none" THEN roots
       ELSE IF roots.value # <<>> THEN Returned(roots.value[1])
       ELSE Returned(None)

(* ---- validate_dataset_root ---- *)
\* "schema_version" not in manifest
LacksSchemaVersion(manifest_) ==
    IF manifest_.type \in {"null", "number", "boolean"} THEN Raised("TypeError")
    ELSE Returned(~manifest_.schema_version)

\* manifest.get("aggregate_index", {})
GetAggregateIndex(manifest_) ==
    IF manifest_.type # "object" THEN Raised("AttributeError")
    ELSE IF manifest_.aggregate_index = "missing" THEN Returned("empty_object")
    ELSE Returned(manifest_.aggregate_index)

Invalid(message) == Returned([is_valid |-> FALSE, error |-> message])
Valid == Returned([is_valid |-> TRUE, error |-> NoError])

\* the try block, given the manifest that json.load returned
CheckManifest(manifest_) ==
    LET lacks == LacksSchemaVersion(manifest_)
        agg_index == GetAggregateIndex(manifest_)
    IN IF lacks.raised # "none" THEN lacks
       ELSE IF lacks.value THEN Invalid(<<"Manifest missing required field: schema_version">>)
       ELSE IF agg_index.raised # "none" THEN agg_index
       ELSE IF ~TruthyIndex(agg_index.value) THEN Invalid(<<"Manifest missing aggregate_index">>)
       ELSE Valid

validate_dataset_root(dataset_path) ==
    LET loaded == JsonLoad(dataset_path.manifest)
    IN IF ~dataset_path.exists
       THEN Invalid(<<"Dataset path does not exist:", dataset_path.path>>)
       ELSE IF dataset_path.manifest = Absent
       THEN Invalid(<<"dataset-manifest.json not found in", dataset_path.path>>)
       ELSE IF loaded.raised = "JSONDecodeError" THEN Invalid(<<"Invalid JSON in manifest:">>)
       ELSE IF loaded.raised = "OSError" THEN Invalid(<<"Error reading manifest:">>)
       ELSE IF loaded.raised # "none" THEN Raised(loaded.raised)
       ELSE CheckManifest(loaded.value)

(* ---- the inputs and the machine ---- *)
GivenPaths == {Path(<<"run_artifacts">>), Path(<<Root, "tmp", "run_artifacts">>)}

\* what a candidate directory may hold
CandidateFiles == {Absent, CannotOpen, NotUtf8, NotJson, Json([type |-> "null"])}

NoManifests == [n \in 1..Len(CANDIDATE_PATHS) |-> Absent]

ArtifactDirs ==
    { [exists |-> TRUE, path |-> p, manifests |-> m] :
        p \in GivenPaths, m \in [1..Len(CANDIDATE_PATHS) -> CandidateFiles] }
    \cup { [exists |-> FALSE, path |-> p, manifests |-> NoManifests] : p \in GivenPaths }

DatasetDirs ==
    { [exists |-> TRUE, path |-> p, manifest |-> f] : p \in GivenPaths, f \in ManifestFiles }
    \cup { [exists |-> FALSE, path |-> p, manifest |-> Absent] : p \in GivenPaths }

NoDirectory == [exists |-> FALSE, path |-> Path(<<"run_artifacts">>), manifests |-> NoManifests]
NoDataset == [exists |-> FALSE, path |-> Path(<<"run_artifacts">>), manifest |-> Absent]
NoCall == [op |-> "none"]

\* no discovery, for the specifications of the other machines
InitDiscoveryIdle ==
    /\ artifacts = NoDirectory
    /\ dataset = NoDataset
    /\ discovery = NoCall

\* some run_artifacts directory, about to be searched
InitDiscovery ==
    /\ artifacts \in ArtifactDirs
    /\ dataset = NoDataset
    /\ discovery = NoCall

\* some dataset directory, about to be validated
InitValidation ==
    /\ artifacts = NoDirectory
    /\ dataset \in DatasetDirs
    /\ discovery = NoCall

Called(op, out) == [op |-> op, out |-> out]

FindDatasetRoots ==
    /\ discovery' = Called("find_dataset_roots", find_dataset_roots(artifacts))
    /\ UNCHANGED <<artifacts, dataset, insightVars, extractVars, forecastVars, aggregateVars>>

GetBestDatasetRoot ==
    /\ discovery' = Called("get_best_dataset_root", get_best_dataset_root(artifacts))
    /\ UNCHANGED <<artifacts, dataset, insightVars, extractVars, forecastVars, aggregateVars>>

ValidateDatasetRoot ==
    /\ discovery' = Called("validate_dataset_root", validate_dataset_root(dataset))
    /\ UNCHANGED <<artifacts, dataset, insightVars, extractVars, forecastVars, aggregateVars>>

NextDiscovery ==
    \/ FindDatasetRoots
    \/ GetBestDatasetRoot

NextValidation == ValidateDatasetRoot

(***************************************************************************)
(* Specifications.                                                         *)
(***************************************************************************)
Init == InitInsights /\ InitExtract /\ InitForecastIdle /\ InitAggregate /\ InitDiscoveryIdle

SpecInsights == Init /\ [][NextInsights]_vars

SpecDryRun == Init /\ [][NextDryRun]_vars

SpecRuns == Init /\ [][NextRuns]_vars

SpecGenerator == Init /\ [][NextGenerator]_vars

SpecContract == Init /\ [][NextContract]_vars

SpecExtract == Init /\ [][NextExtract]_vars

InitDiscovering ==
    InitInsights /\ InitExtract /\ InitForecastIdle /\ InitAggregate /\ InitDiscovery

SpecDiscovery == InitDiscovering /\ [][NextDiscovery]_vars

InitValidating ==
    InitInsights /\ InitExtract /\ InitForecastIdle /\ InitAggregate /\ InitValidation

SpecValidation == InitValidating /\ [][NextValidation]_vars

SpecIncremental == Init /\ [][NextIncremental]_vars

SpecMain == Init /\ [][NextMain]_vars

SpecComments == Init /\ [][NextComments]_vars

\* the other machines at rest, a forecaster over some database on some day
InitForecaster == InitInsights /\ InitExtract /\ InitForecast /\ InitAggregate /\ InitDiscoveryIdle

SpecForecast == InitForecaster /\ [][NextForecast]_vars

\* the other machines at rest, an array about to be clipped
InitClipping == InitInsights /\ InitExtract /\ InitClip /\ InitAggregate /\ InitDiscoveryIdle

SpecClip == InitClipping /\ [][NextClip]_vars

SpecAggregate == Init /\ [][NextAggregate]_vars

SpecCommands == Init /\ [][NextCommands]_vars

SpecCli == Init /\ [][NextCli]_vars


(***************************************************************************)
(* Claims about the extraction.                                            *)
(***************************************************************************)
InRun == pc \in {"extract", "finish"}

RunEnded == pc = "idle" /\ exitCode # NoExit

\* the run ended before extract_all was called
AbortedBy(kind) ==
    /\ RunEnded
    /\ runSummary.state = "ok"
    /\ runSummary.content.first_fatal_error = <<kind>>

Aborted == \E kind \in StartOutcomes : AbortedBy(kind)

Incremental == args.start_date = NoDate /\ args.backfill_days = NoDays

ListCallsFor(project) ==
    { k \in 1..Len(apiCalls) :
        apiCalls[k].op = "list_pull_requests" /\ apiCalls[k].project = project }

\* January 1 of the year of a day
IsJanuaryFirstOf(d, day) ==
    /\ d % YearLength = 0
    /\ d <= day
    /\ day - d < YearLength

\* C1: a project's watermark is written only after its extraction completes
\* without error: while and after a run, a project that failed in it has the
\* watermark it had when the run began, a project not yet attempted too, a
\* watermark that moved belongs to a project that succeeded, and the start
\* of a failed incremental run is the start an incremental run resolves from
\* the watermark the store holds after it.
C1_WatermarkOnlyAfterSuccess ==
    /\ \A i \in 1..Len(results) :
         LET r == results[i]
         IN /\ ~r.success =>
                 /\ watermark[r.project] = runStart[r.project]
                 /\ Incremental /\ watermark[r.project] # NoDate
                      => r.start_date = watermark[r.project] + 1
                 /\ Incremental /\ watermark[r.project] = NoDate
                      => IsJanuaryFirstOf(r.start_date, today)
            /\ watermark[r.project] # runStart[r.project] => r.success
    /\ \A p \in ProjectSet :
         (InRun \/ RunEnded) /\ (\A i \in 1..Len(results) : results[i].project # p)
           => watermark[p] = runStart[p]

\* an incremental run failed for a project that had a watermark, and left it,
\* while another project of the run succeeded and advanced its own
C1_Witness ==
    /\ RunEnded
    /\ Incremental
    /\ \E i, j \in 1..Len(results) :
         /\ ~results[i].success
         /\ runStart[results[i].project] # NoDate
         /\ watermark[results[i].project] = runStart[results[i].project]
         /\ results[i].start_date = runStart[results[i].project] + 1
         /\ results[j].success
         /\ watermark[results[j].project] # runStart[results[j].project]

AllAttempted ==
    /\ Len(results) = Len(Projects)
    /\ \A i \in 1..Len(results) : results[i].project = Projects[i]

\* a project that succeeded has its listed pull requests and its watermark
\* in the store
Committed(r) ==
    r.success /\ r.start_date <= r.end_date =>
      /\ watermark[r.project] = r.end_date
      /\ \A k \in 1..Len(RemotePRs) :
           /\ RemotePRs[k].project = r.project
           /\ r.start_date <= RemotePRs[k].closed_date
           /\ RemotePRs[k].closed_date <= r.end_date
           => PullRequestRow(RemotePRs[k]) \in Rows(pull_requests)

MarkedFailed ==
    /\ exitCode = 1
    /\ runSummary.state = "ok"
    /\ runSummary.content.final_status = "failed"

NoDuplicateRows(table) ==
    /\ \A r \in Rows(table) : table[r] = 1
    /\ \A r1, r2 \in Rows(table) : r1.key = r2.key => r1 = r2

NoDuplicates ==
    /\ NoDuplicateRows(pull_requests)
    /\ NoDuplicateRows(users)
    /\ NoDuplicateRows(threads)
    /\ NoDuplicateRows(comments)

\* the step that ends a run which repeats, on the same day and with the
\* same arguments, a run all of whose requests were answered
EndsRepeatedRun ==
    /\ pc = "finish"
    /\ pc' = "idle"
    /\ repeat
    /\ base.clean
    /\ base.today = today
    /\ base'.clean

\* C3: extraction is idempotent: no step leaves two rows of one natural key
\* in a table of the store, and a run that repeats the run before it over
\* the unchanged remote dataset (same arguments, same day, every request
\* answered in both) leaves every table with the row count the first left.
C3_ExtractionIdempotent ==
    [][ /\ NoDuplicates'
        /\ EndsRepeatedRun => base'.counts = base.counts ]_vars

\* a backfill run with comments was repeated: its pull requests, authors,
\* threads and comments were upserted onto the rows of the first run
C3_Witness ==
    /\ RunEnded
    /\ base.repeated
    /\ args.backfill_days # NoDays
    /\ args.include_comments
    /\ results[1].prs_extracted > 0
    /\ base.counts.pull_requests = Len(RemotePRs)
    /\ base.counts.threads > 0
    /\ base.counts.comments > 0

\* C4: the start date a run resolves for a project is the explicit start if
\* one is configured; else today minus backfill_days if backfill_days is
\* given, even when a watermark exists; else the watermark plus one day if
\* the project has one; else January 1 of today's year.
C4_StartPriority ==
    InRun =>
      \A i \in 1..Len(results) :
        LET r == results[i]
            w == runStart[r.project]
        IN /\ args.start_date # NoDate => r.start_date = args.start_date
           /\ args.start_date = NoDate /\ args.backfill_days # NoDays
                => r.start_date = today - args.backfill_days
           /\ Incremental /\ w # NoDate => r.start_date = w + 1
           /\ Incremental /\ w = NoDate => IsJanuaryFirstOf(r.start_date, today)

\* a backfill run over a project that has a watermark starts at today minus
\* backfill_days, not at the watermark plus one
C4_Witness ==
    /\ pc = "finish"
    /\ args.start_date = NoDate
    /\ args.backfill_days # NoDays
    /\ runStart[results[1].project] # NoDate
    /\ results[1].start_date = today - args.backfill_days
    /\ results[1].start_date # runStart[results[1].project] + 1

\* C5: the end date a run resolves is the explicit end date whenever one is
\* given and otherwise today minus one day; without an explicit end no
\* request reaches the day in progress.
C5_EndDate ==
    InRun =>
      /\ \A i \in 1..Len(results) :
           /\ args.end_date # NoDate => results[i].end_date = args.end_date
           /\ args.end_date = NoDate => results[i].end_date = today - 1
      /\ \A k \in 1..Len(apiCalls) :
           apiCalls[k].op = "list_pull_requests" /\ args.end_date = NoDate
             => apiCalls[k].end_date < today

\* on the second day a run without an explicit end has listed the pull
\* requests of a project up to the day before
C5_Witness ==
    /\ pc = "finish"
    /\ today = MaxToday
    /\ args.end_date = NoDate
    /\ results[1].end_date = today - 1
    /\ \E k \in ListCallsFor(results[1].project) : apiCalls[k].end_date = today - 1

\* C6: no list_pull_requests call carries a start later than its end, and a
\* project whose resolved start is later than its resolved end is reported
\* with no pull request and no list_pull_requests call in that run.
C6_EmptyWindowSkipsApi ==
    /\ \A k \in 1..Len(apiCalls) :
         apiCalls[k].op = "list_pull_requests"
           => apiCalls[k].start_date <= apiCalls[k].end_date
    /\ \A i \in 1..Len(results) :
         results[i].start_date > results[i].end_date
           => /\ ListCallsFor(results[i].project) = {}
              /\ results[i].prs_extracted = 0

\* the second incremental run of a day: start = watermark + 1 = today and
\* end = today - 1, and the run is past the project without a request
C6_Witness ==
    /\ pc = "finish"
    /\ Incremental
    /\ args.end_date = NoDate
    /\ runStart[results[1].project] = today - 1
    /\ results[1].start_date = today
    /\ results[1].end_date = today - 1
    /\ ListCallsFor(results[1].project) = {}


(***************************************************************************)
(* Claims about the fallback forecaster.                                   *)
(***************************************************************************)
Generated == lastForecast # NoForecast

\* the forecasts of trends.json and all their values
WrittenForecasts ==
    IF trendsFile = Absent THEN {}
    ELSE {trendsFile.content.forecasts[i] : i \in 1..Len(trendsFile.content.forecasts)}

WrittenValues ==
    UNION {{f.values[i] : i \in 1..Len(f.values)} : f \in WrittenForecasts}

\* C12: every value of every forecast written to predictions/trends.json
\* satisfies 0 <= lower_bound <= predicted <= upper_bound, also when the
\* regression line extrapolates below zero.
C12_BoundsOrdered ==
    \A v \in WrittenValues :
        /\ 0 <= v.lower_bound
        /\ v.lower_bound <= v.predicted
        /\ v.predicted <= v.upper_bound

\* a written forecast whose regression line went below zero: the prediction
\* is floored at 0 and the upper bound is left negative
C12_Witness ==
    \E v \in WrittenValues : v.predicted = 0 /\ v.upper_bound < 0

IsMonday(d) == Weekday(d) = 0

\* the generation date when it is a Monday, else the next Monday after it
FirstMondayFrom(d) == CHOOSE m \in d..(d + 6) : IsMonday(m)

\* C13: on every weekday of the generation date, the first period of every
\* written forecast starts on the generation date when that is a Monday and
\* otherwise on the next Monday after it, each following period starts 7
\* days after the previous one, and so every period_start is a Monday.
C13_PeriodsStartOnMondays ==
    \A f \in WrittenForecasts :
        \A i \in 1..Len(f.values) :
            /\ FromIsoFormat(f.values[i].period_start)
                   = FirstMondayFrom(forecastDay) + 7 * (i - 1)
            /\ IsMonday(FromIsoFormat(f.values[i].period_start))

\* generated on a Monday: the four periods start that day and weekly after
C13_Witness ==
    /\ IsMonday(forecastDay)
    /\ \E f \in WrittenForecasts :
           /\ Len(f.values) = HORIZON_WEEKS
           /\ f.values[1].period_start = IsoFormat(forecastDay)
           /\ f.values[HORIZON_WEEKS].period_start = IsoFormat(forecastDay + 21)


\* the horizon and the length of every written forecast
HorizonIs(h) ==
    \A f \in WrittenForecasts : f.horizon_weeks = h /\ Len(f.values) = h

\* C14: the data-quality gate depends only on the number of weeks with data:
\* under 4 weeks 'insufficient' and no forecasts; 4 to 7 weeks
\* 'low_confidence', horizon 2 and multiplier 2.58; 8 weeks or more 'normal',
\* horizon 4 and multiplier 1.96.
C14_DataQualityGate ==
    Generated =>
        LET weeks == Len(weekly)
            written == trendsFile.content
        IN /\ weeks < 4 =>
                /\ written.data_quality = "insufficient"
                /\ written.forecasts = <<>>
           /\ (4 <= weeks /\ weeks <= 7) =>
                /\ written.data_quality = "low_confidence"
                /\ HorizonIs(2)
                /\ lastForecast.multiplier = 258
           /\ weeks >= 8 =>
                /\ written.data_quality = "normal"
                /\ HorizonIs(4)
                /\ lastForecast.multiplier = 196

\* seven weeks of data: both metrics forecast two weeks ahead at 2.58
C14_Witness ==
    /\ Generated
    /\ Len(weekly) = 7
    /\ trendsFile.content.data_quality = "low_confidence"
    /\ Len(trendsFile.content.forecasts) = 2
    /\ HorizonIs(2)
    /\ lastForecast.multiplier = Confidence99


\* the weeks in which the metric's column holds a number
NumericWeeks(metric) == {i \in 1..Len(weekly) : ~IsNaN(weekly[i][ColumnOf(metric)])}

WrittenMetrics == {f.metric : f \in WrittenForecasts}

\* C15: with at least 4 weeks of data, a metric is left out of the forecasts
\* exactly when fewer than 4 of its weekly points are numbers or its
\* computation raises; the other metric is still forecast, trends.json is
\* written and generate() returns True.
C15_FailedMetricOmitted ==
    (Generated /\ Len(weekly) >= 4) =>
        /\ trendsFile # Absent
        /\ lastForecast.returned = TRUE
        /\ \A m \in MetricNames :
               m \in WrittenMetrics
                   <=> (m \notin lastForecast.raises /\ Cardinality(NumericWeeks(m)) >= 4)
        /\ Len(trendsFile.content.forecasts) = Cardinality(WrittenMetrics)

\* seven weeks of which three have a cycle time: only throughput is forecast
C15_Witness ==
    /\ Generated
    /\ Len(weekly) = 7
    /\ lastForecast.raises = {}
    /\ Cardinality(NumericWeeks("cycle_time_minutes")) = 3
    /\ WrittenMetrics = {"pr_throughput"}
    /\ lastForecast.returned = TRUE


(***************************************************************************)
(* Claims about clip_outliers.  The inputs are whole numbers, so whether a *)
(* value lies within mean +- 3 standard deviations is decided exactly, in  *)
(* integers: with n numbers of sum S, v is within the band exactly when    *)
(* n * (n*v - S)^2 <= 9 * sum_i (n*v_i - S)^2.                             *)
(***************************************************************************)
Clipped == clipOut.called

ClipNumbers == DropNaN(clipIn)

\* n * (v - mean), for a value given in thousandths
ScaledDeviation(v) ==
    Len(ClipNumbers) * Quot(v, One) - Quot(SumSeq(ClipNumbers, Len(ClipNumbers)), One)

\* n^3 times the population variance
ScaledSquares ==
    SumSeq([i \in 1..Len(ClipNumbers) |->
               ScaledDeviation(ClipNumbers[i]) * ScaledDeviation(ClipNumbers[i])],
           Len(ClipNumbers))

Abs(v) == IF v >= 0 THEN v ELSE 0 - v

WithinBand(v) ==
    Len(ClipNumbers) * ScaledDeviation(v) * ScaledDeviation(v) <= 9 * ScaledSquares

\* o lies on the band's edge on the side of v, to the whole number
AtNearerBound(o, v) ==
    LET n == Len(ClipNumbers)
        d == Abs(ScaledDeviation(o))
    IN /\ (o < v) = (ScaledDeviation(v) > 0)
       /\ o # v
       /\ n * (d - n) * (d - n) <= 9 * ScaledSquares
       /\ 9 * ScaledSquares <= n * (d + 2 * n) * (d + 2 * n)

\* C16: clip_outliers returns a series of the same length; a series of
\* fewer than 2 points or of standard deviation 0 comes back unchanged;
\* otherwise every value within mean +- 3 population standard deviations is
\* unchanged and every value outside is replaced by the nearer bound.
C16_ClipOutliers ==
    Clipped =>
        /\ Len(clipOut.result) = Len(clipIn)
        /\ (Len(clipIn) < 2 \/ ScaledSquares = 0) => clipOut.result = clipIn
        /\ \A i \in 1..Len(clipIn) :
               IF IsNaN(clipIn[i]) THEN IsNaN(clipOut.result[i])
               ELSE IF WithinBand(clipIn[i]) THEN clipOut.result[i] = clipIn[i]
               ELSE AtNearerBound(clipOut.result[i], clipIn[i])

\* twenty 10.0s and one 100.0: the 100.0 comes back smaller, the 10.0s stay
C16_Witness ==
    /\ Clipped
    /\ clipIn = [i \in 1..21 |-> IF i < 21 THEN 10 * One ELSE 100 * One]
    /\ clipOut.result[21] < 100 * One
    /\ clipOut.result[21] > 10 * One
    /\ \A i \in 1..20 : clipOut.result[i] = 10 * One


\* C17: every call of generate() writes predictions/trends.json and returns
\* True, also with no data, with insufficient data and when every metric
\* fails; the file records is_stub = false, forecaster = 'linear',
\* schema_version = 1 and the data-quality status computed in that call.
C17_AlwaysWritesTrends ==
    [][ lastForecast' # lastForecast =>
          /\ trendsFile' # Absent
          /\ lastForecast'.returned = TRUE
          /\ trendsFile'.content.is_stub = FALSE
          /\ trendsFile'.content.forecaster = "linear"
          /\ trendsFile'.content.schema_version = 1
          /\ trendsFile'.content.generated_at = IsoFormat(forecastDay)
          /\ trendsFile'.content.data_quality = dataQuality'.status
          /\ dataQuality'.weeks_available = Len(weekly)
          /\ (Len(weekly) < MIN_WEEKS_REQUIRED
                 => trendsFile'.content.data_quality = "insufficient") ]_vars

\* eight weeks of data and both metrics raise: an empty forecast list is
\* written with status normal, and generate() returned True
C17_Witness ==
    /\ Generated
    /\ Len(weekly) = 8
    /\ lastForecast.raises = MetricNames
    /\ trendsFile # Absent
    /\ trendsFile.content.forecasts = <<>>
    /\ trendsFile.content.data_quality = "normal"
    /\ lastForecast.returned = TRUE


(***************************************************************************)
(* Claims about the manifest of an aggregate run.                          *)
(***************************************************************************)
\* the state is the one an aggregate run left
AfterAggregate == lastAggregate.called /\ last.op # "env"

Features == manifest.content.features

\* C18: in the manifest of an aggregate run, features.predictions is true
\* only if the forecast engine was requested and produced trends.json in
\* that run, and features.ai_insights only if the insights engine was
\* requested and produced summary.json in that run; each is false when the
\* feature was not requested, when its engine failed or returned False, and,
\* for insights, in dry-run mode.
C18_ManifestFeatures ==
    AfterAggregate =>
        /\ Features.predictions =>
               /\ lastAggregate.enable_predictions
               /\ lastAggregate.engine = "runs"
               /\ trendsFile # Absent
               /\ lastForecast.returned = TRUE
        /\ Features.ai_insights =>
               /\ lastAggregate.enable_insights
               /\ last.op = "generate" /\ last.result /\ ~last.dry_run
               /\ last.hit \/ last.called
               /\ summaryFile.state = "ok"
        /\ ~lastAggregate.enable_predictions => ~Features.predictions
        /\ lastAggregate.engine \in {"raises", "returns false"} => ~Features.predictions
        /\ ~lastAggregate.enable_insights => ~Features.ai_insights
        /\ (lastAggregate.enable_insights /\ (last.dry_run \/ ~last.result))
               => ~Features.ai_insights

\* both features requested, the forecast engine wrote trends.json and the
\* insights engine ran dry: the manifest advertises predictions only
C18_Witness ==
    /\ AfterAggregate
    /\ lastAggregate.enable_predictions /\ lastAggregate.enable_insights
    /\ last.op = "generate" /\ last.dry_run
    /\ promptFile # Absent /\ summaryFile = Absent
    /\ trendsFile # Absent
    /\ Features = [predictions |-> TRUE, ai_insights |-> FALSE]


(***************************************************************************)
(* Claims about the run summary.                                           *)
(***************************************************************************)
FailedResults == {i \in 1..Len(results) : ~results[i].success}

\* C19: after extraction of all projects the per-project status map holds
\* 'success' or 'failed' for every project according to its result;
\* first_fatal_error is the error of the first failed project in iteration
\* order (its text, or a default message naming the project) and no later
\* failure replaces it; a run without failure reports first_fatal_error
\* null and final_status 'success'.
C19_FirstFatalError ==
    (RunEnded /\ ~Aborted) =>
        LET written == runSummary.content
        IN /\ DOMAIN written.per_project_status = ProjectSet
           /\ \A i \in 1..Len(results) :
                  written.per_project_status[results[i].project]
                      = (IF results[i].success THEN "success" ELSE "failed")
           /\ \A i \in FailedResults :
                  (\A j \in FailedResults : i <= j) =>
                      written.first_fatal_error
                          = (IF results[i].error # NoError THEN results[i].error
                             ELSE <<"Extraction failed for project", results[i].project>>)
           /\ FailedResults = {} =>
                  /\ written.first_fatal_error = NoError
                  /\ written.final_status = "success"
           /\ FailedResults # {} => written.final_status = "failed"

\* both projects failed, the first without an error text: the summary
\* names the first project and keeps that message
C19_Witness ==
    /\ RunEnded
    /\ ~Aborted
    /\ FailedResults = {1, 2}
    /\ results[1].error = NoError
    /\ results[2].error # NoError
    /\ runSummary.content.first_fatal_error
           = <<"Extraction failed for project", Projects[1]>>
    /\ runSummary.content.per_project_status = [p \in ProjectSet |-> "failed"]


\* the run was left by an exception that cmd_extract does not catch
Cancelled == RunEnded /\ exitCode = ExitCancelled

\* C20: every extract run that terminates (success, project failure,
\* configuration, database or extraction error, cancellation, any other
\* uncaught exception) has written a run_summary.json describing its
\* outcome, whatever the artifacts directory held before the run: the file
\* exists, its final_status is 'success' exactly when the run exited 0, and
\* after a cancellation it is the minimal summary of the cancellation.
C20_EveryRunWritesSummary ==
    RunEnded =>
        /\ runSummary.state = "ok"
        /\ runSummary.content.final_status = "success" <=> exitCode = 0
        /\ Cancelled =>
               runSummary.content.first_fatal_error = <<"Operation cancelled by user">>

\* a run cancelled in an artifacts directory that holds the summary of an
\* earlier successful run: run_summary.json still reports success
C20_Witness ==
    /\ Cancelled
    /\ runSummary.state = "ok"
    /\ runSummary.content.final_status = "success"
    /\ runSummary.content.first_fatal_error = NoError



(***************************************************************************)
(* Claims about the exit codes and the checks of the commands.             *)
(***************************************************************************)
ExitCodes == {0, 1, ExitCancelled}

EveryProjectSucceeded ==
    /\ Len(results) = Len(Projects)
    /\ \A i \in 1..Len(results) : results[i].success

\* C21: the exit code of extract and of the aggregate commands is 0 only
\* when the command succeeded (extract: it returned normally and every
\* project succeeded), 130 exactly when the run was cancelled by the user,
\* and 1 for every failure.
C21_ExitCodes ==
    /\ RunEnded =>
        /\ exitCode \in ExitCodes
        /\ exitCode = 0 <=> (ending = "returned" /\ EveryProjectSucceeded)
        /\ exitCode = ExitCancelled <=> ending = "Operation cancelled by user"
    /\ lastAggregate.called =>
        /\ lastAggregate.exit \in ExitCodes
        /\ lastAggregate.exit = 0 <=> lastAggregate.message = AggregateComplete
        /\ lastAggregate.exit = ExitCancelled
             <=> lastAggregate.message = "Operation cancelled by user"

\* an extract run that failed on a project, then an aggregate command that
\* was cancelled
C21_Witness ==
    /\ RunEnded /\ exitCode = 1 /\ ending = "returned" /\ ~EveryProjectSucceeded
    /\ lastAggregate.called /\ lastAggregate.exit = ExitCancelled

\* a command run with --enable-insights, outside dry-run, with OPENAI_API_KEY
\* unset or empty
KeyMissing(run) ==
    run.called /\ run.enable_insights /\ ~run.key_set /\ ~run.dry_run

Artifacts == <<manifest, trendsFile, promptFile, cacheFile, summaryFile>>

\* C28: an aggregate command run with --enable-insights, outside dry-run,
\* while OPENAI_API_KEY is unset or empty exits non-zero with the message
\* naming OPENAI_API_KEY, without having opened the database and without
\* writing an aggregate, forecast or insight artifact.
C28_FailsFastNamingKey ==
    [][ lastAggregate' # lastAggregate /\ KeyMissing(lastAggregate') =>
          /\ lastAggregate'.exit # 0
          /\ lastAggregate'.message = ApiKeyRequired
          /\ ~lastAggregate'.db_opened
          /\ UNCHANGED Artifacts ]_vars

\* the command was given a database file that does not exist: the error
\* names the database, not the key
C28_Witness ==
    /\ KeyMissing(lastAggregate)
    /\ lastAggregate.exit = 1
    /\ lastAggregate.message = DatabaseNotFound


(***************************************************************************)
(* Claims about the comment extraction.                                    *)
(***************************************************************************)
\* the positions of the get_pr_threads calls of a run
ThreadsCalls(calls) == {k \in 1..Len(calls) : calls[k].op = "get_pr_threads"}

CommentsAllowed ==
    /\ args.include_comments
    /\ Len(results) = Len(Projects)
    /\ SummarySuccess(results)

\* C22: get_pr_threads is called and threads and comments are written only
\* in a run with --include-comments whose pull-request extraction succeeded
\* for every project; a run in which a project failed ends as failed, with
\* exit code 1, without a comment-extraction call or write.
C22_CommentsOnlyAfterSuccess ==
    [][ /\ ( \/ ThreadsCalls(apiCalls') # {}
             \/ commentLog' # <<>>
             \/ threads' # threads
             \/ comments' # comments ) => CommentsAllowed'
        /\ (pc = "finish" /\ pc' = "idle" /\ ~SummarySuccess(results)) =>
              /\ exitCode' = 1
              /\ runSummary'.content.final_status = "failed"
              /\ ThreadsCalls(apiCalls') = {}
              /\ commentLog' = <<>>
              /\ UNCHANGED <<users, threads, comments>> ]_vars

\* a run with --include-comments in which a project failed, over a store
\* that holds completed pull requests
C22_Witness ==
    /\ RunEnded /\ ending = "returned"
    /\ args.include_comments
    /\ ~SummarySuccess(results)
    /\ SelectCompletedPRs(pull_requests, args.comments_max_prs_per_run) # <<>>
    /\ commentLog = <<>>

\* _extract_comments returned in the run
CommentsReturned == commentLog # <<>> /\ commentLog[Len(commentLog)].op = "return"

CommentStats == commentLog[Len(commentLog)].stats

\* the pull requests whose threads were requested, in the order of the requests
FetchedPRs == SelectSeq(commentLog, LAMBDA e : e.op = "get_pr_threads")

CompletedLatestFirst ==
    OrderByClosedDesc({r \in Rows(pull_requests) : r.status = "completed"})

CappedWarning ==
    \E k \in 1..Len(runSummary.content.warnings) :
        runSummary.content.warnings[k][1] = "Comments extraction capped at"

\* C23: comment extraction processes at most max_prs completed pull
\* requests, the most recently closed first; capped is set when that many
\* were selected and false when fewer were, and the run summary carries the
\* "Comments extraction capped" warning whenever capped is set.
C23_CapAndWarning ==
    CommentsReturned =>
        LET max_prs == args.comments_max_prs_per_run
            n == Len(FetchedPRs)
        IN /\ n <= max_prs
           /\ n <= Len(CompletedLatestFirst)
           /\ \A k \in 1..n : FetchedPRs[k].pr = CompletedLatestFirst[k].key
           /\ n = max_prs => CommentStats.capped
           /\ n < max_prs => ~CommentStats.capped
           /\ CommentStats.capped => CappedWarning

\* --comments-max-prs-per-run -1: every completed pull request is processed
C23_Witness ==
    /\ CommentsReturned
    /\ args.comments_max_prs_per_run < 0
    /\ Len(FetchedPRs) = 2
    /\ CommentStats.capped /\ CappedWarning

\* the pull requests whose get_pr_threads raised ExtractionError in the run
FailedFetches == {FetchedPRs[k].pr : k \in {j \in 1..Len(FetchedPRs) : FetchedPRs[j].raised}}

WritesFor(pr_uid) ==
    { k \in 1..Len(commentLog) :
        /\ commentLog[k].op \in {"upsert_thread", "upsert_user", "upsert_comment"}
        /\ commentLog[k].pr = pr_uid }

\* the maximum read for a pull request before its threads were requested
MaxReadFor(pr_uid) ==
    LET k == CHOOSE j \in 1..Len(commentLog) :
                 commentLog[j].op = "get_thread_last_updated" /\ commentLog[j].pr = pr_uid
    IN commentLog[k].result

\* the threads get_pr_threads answers for a pull request, after the cut to
\* max_threads_per_pr
KeptThreads(pr_uid) ==
    TruncateThreads(RemoteThreads(pr_uid[1], pr_uid[2]), args.comments_max_threads_per_pr)

ThreadUpserted(pr_uid, thread) ==
    \E k \in 1..Len(commentLog) :
        /\ commentLog[k].op = "upsert_thread"
        /\ commentLog[k].pr = pr_uid
        /\ commentLog[k].key = Str(thread.id)

IsNewer(thread, max) == max = NoDate \/ thread.lastUpdatedDate > max

\* C24: a pull request whose threads could not be fetched is skipped with
\* nothing written for it and is not counted in prs_processed, every other
\* selected pull request is still processed, and the run ends with
\* final_status "success" and exit code 0.
C24_FailedFetchSkipped ==
    CommentsReturned /\ FailedFetches # {} =>
        /\ \A pr_uid \in FailedFetches : WritesFor(pr_uid) = {}
        /\ CommentStats.prs_processed = Len(FetchedPRs) - Cardinality(FailedFetches)
        /\ Len(FetchedPRs) =
             Len(SelectCompletedPRs(pull_requests, args.comments_max_prs_per_run))
        /\ \A k \in 1..Len(FetchedPRs) :
             ~FetchedPRs[k].raised =>
                 LET ts == KeptThreads(FetchedPRs[k].pr)
                 IN \A i \in 1..Len(ts) :
                      IsNewer(ts[i], MaxReadFor(FetchedPRs[k].pr))
                        => ThreadUpserted(FetchedPRs[k].pr, ts[i])
        /\ exitCode = 0
        /\ runSummary.content.final_status = "success"

\* the fetch failed for the first of two selected pull requests and the
\* threads of the second were written
C24_Witness ==
    /\ CommentsReturned
    /\ Len(FetchedPRs) = 2
    /\ FetchedPRs[1].raised /\ ~FetchedPRs[2].raised
    /\ WritesFor(FetchedPRs[2].pr) # {}
    /\ exitCode = 0

\* the threads of a pull request as get_pr_threads answers them, or as they
\* are after the cut to max_threads_per_pr
ThreadsOf(pr_uid, as_fetched) ==
    IF as_fetched THEN RemoteThreads(pr_uid[1], pr_uid[2]) ELSE KeptThreads(pr_uid)

\* the writes of the run made for a thread of a pull request
WritesForThread(pr_uid, thread) ==
    { k \in 1..Len(commentLog) :
        /\ commentLog[k].op \in {"upsert_thread", "upsert_user", "upsert_comment"}
        /\ commentLog[k].pr = pr_uid
        /\ IF commentLog[k].op = "upsert_thread"
           THEN commentLog[k].key = Str(thread.id)
           ELSE commentLog[k].thread_id = Str(thread.id) }

\* the maximum of a pull request is read before its threads are requested
ReadBeforeFetch(pr_uid) ==
    \E i, j \in 1..Len(commentLog) :
        /\ i < j
        /\ commentLog[i].op = "get_thread_last_updated" /\ commentLog[i].pr = pr_uid
        /\ commentLog[j].op = "get_pr_threads" /\ commentLog[j].pr = pr_uid

ThreadSync(as_fetched) ==
    \A k \in 1..Len(FetchedPRs) :
        LET pr_uid == FetchedPRs[k].pr
            ts == ThreadsOf(pr_uid, as_fetched)
        IN /\ ReadBeforeFetch(pr_uid)
           /\ ~FetchedPRs[k].raised =>
                \A i \in 1..Len(ts) :
                    /\ ThreadUpserted(pr_uid, ts[i]) <=> IsNewer(ts[i], MaxReadFor(pr_uid))
                    /\ ~ThreadUpserted(pr_uid, ts[i]) => WritesForThread(pr_uid, ts[i]) = {}

\* the maxima read in the run are those stored when the run began
ReadsStoredMaxima ==
    \A k \in 1..Len(FetchedPRs') :
        MaxReadFor(FetchedPRs[k].pr)' = GetThreadLastUpdated(threads, FetchedPRs'[k].pr)

\* C25 as stated: the stored maximum is read before the threads are
\* fetched, and every fetched thread is upserted if and only if no maximum
\* is stored or its lastUpdatedDate is strictly greater; a thread that is
\* not upserted causes no thread, user or comment write.
C25_ThreadSync ==
    [][ pc = "finish" /\ CommentsReturned' => ReadsStoredMaxima /\ ThreadSync(TRUE)' ]_vars

\* C25: the same, of the fetched threads that remain after the cut to
\* max_threads_per_pr.
C25_ThreadSyncOfKept ==
    [][ pc = "finish" /\ CommentsReturned' => ReadsStoredMaxima /\ ThreadSync(FALSE)' ]_vars

\* a second run over a pull request whose threads are stored: both are
\* skipped and nothing is written
C25_Witness ==
    /\ CommentsReturned
    /\ Len(FetchedPRs) >= 1 /\ ~FetchedPRs[1].raised
    /\ MaxReadFor(FetchedPRs[1].pr) # NoDate
    /\ Len(KeptThreads(FetchedPRs[1].pr)) = 2
    /\ WritesFor(FetchedPRs[1].pr) = {}

\* C26: every comment upsert of a run comes after the upsert of its thread
\* and after the upsert of its author (the placeholder "unknown" when the
\* comment has no author), and no stored comment references a thread or a
\* user that is not stored.
C26_ForeignKeys ==
    /\ \A k \in 1..Len(commentLog) :
         commentLog[k].op = "upsert_comment" =>
           /\ \E i \in 1..(k - 1) :
                /\ commentLog[i].op = "upsert_thread"
                /\ commentLog[i].key = commentLog[k].thread_id
                /\ commentLog[i].pr = commentLog[k].pr
           /\ \E j \in 1..(k - 1) :
                /\ commentLog[j].op = "upsert_user"
                /\ commentLog[j].key = commentLog[k].author_id
    /\ \A c \in Rows(comments) :
         /\ \E t \in Rows(threads) : t.key = c.thread_id
         /\ \E u \in Rows(users) : u.key = c.author_id

\* a comment without author is stored under the placeholder user, which
\* only the comment extraction writes
C26_Witness ==
    /\ \E c \in Rows(comments) : c.author_id = "unknown"
    /\ \E u \in Rows(users) : u.key = "unknown"
    /\ \E k \in 1..Len(commentLog) :
         commentLog[k].op = "upsert_comment" /\ commentLog[k].author_id = "unknown"

\* the positions of the commits of the run
Commits == {k \in 1..Len(commentLog) : commentLog[k].op = "commit"}

CommentsAborted == commentLog # <<>> /\ commentLog[Len(commentLog)].op = "raise"

\* C27: the comment extraction commits once, after the last selected pull
\* request has been processed and not between pull requests, and a run that
\* aborts in the batch commits none of the batch's thread and comment
\* writes.
C27_SingleCommit ==
    [][ /\ CommentsReturned' =>
              /\ (Commits = {Len(commentLog) - 1})'
        /\ CommentsAborted' /\ pc = "finish" =>
              /\ Commits' = {}
              /\ UNCHANGED <<users, threads, comments>>
        /\ (threads' # threads \/ comments' # comments) => Commits' # {} ]_vars

\* a run aborted after the threads of a pull request were upserted: the
\* store holds none of them
C27_Witness ==
    /\ CommentsAborted
    /\ \E k \in 1..Len(commentLog) : commentLog[k].op = "upsert_comment"
    /\ threads = EmptyBag /\ comments = EmptyBag


(***************************************************************************)
(* Claims about the generator call and the insights written.               *)
(***************************************************************************)
UnusableKinds ==
    {"exception", "no_choices", "empty_content", "invalid_json",
     "missing_insights", "insights_not_list"}

\* the generator call of the run fails or yields nothing usable
Unusable(in) == ~in.api_key_set \/ in.response.kind \in UnusableKinds

\* C29: whatever the files of the insights directory hold, a run whose
\* generator call raises, has no API key, or answers no choices, empty
\* content, invalid JSON or no list of insights returns False and leaves
\* summary.json and cache.json as they are.
C29_FailedCallWritesNothing ==
    \A in \in DirectInputs :
        Unusable(in) =>
          LET out == generate(in.self, in.api_key_set, in.response, db, PROMPT_VERSION,
                              clock, promptFile, cacheFile, summaryFile)
          IN out.called =>
               /\ ~out.result
               /\ out.summary_file = summaryFile
               /\ out.cache_file = cacheFile

\* a run without API key, after a run that wrote both files and whose cache
\* entry no longer serves
C29_Witness ==
    /\ last.op = "generate" /\ last.called /\ ~last.requested /\ ~last.result
    /\ summaryFile.state = "ok"
    /\ cacheFile.state = "ok"

ContractCategories == {"bottleneck", "trend", "anomaly"}

ContractSeverities == {"info", "warning", "critical"}

\* the lists of entities of the entries the generator answers
EntityLists == {<<>>, <<"project:test-project">>, <<"repo:test">>}

WrittenInsights == summaryFile.content.insights

\* C30: every insight of summary.json has an id, a category among
\* bottleneck, trend and anomaly, a severity among info, warning and
\* critical, a title, a description and a list affected_entities.
C30_InsightContract ==
    summaryFile.state = "ok" =>
        \A k \in 1..Len(WrittenInsights) :
            LET insight == WrittenInsights[k]
            IN /\ AllKeys \subseteq insight.keys
               /\ insight.category \in ContractCategories
               /\ insight.severity \in ContractSeverities
               /\ insight.affected_entities \in EntityLists

\* summary.json holds an insight that has no category
C30_Witness ==
    /\ summaryFile.state = "ok"
    /\ Len(WrittenInsights) = 1
    /\ "category" \notin WrittenInsights[1].keys
    /\ "id" \in WrittenInsights[1].keys

\* C38: within one summary.json the insight ids are pairwise distinct,
\* whatever list the external generator answered.
C38_DistinctIds ==
    summaryFile.state = "ok" =>
        \A i, j \in 1..Len(WrittenInsights) :
            i # j => WrittenInsights[i].id # WrittenInsights[j].id

\* two insights of the category "trend" are written, the second of them
\* after an entry that validation dropped
C38_Witness ==
    /\ summaryFile.state = "ok"
    /\ Len(WrittenInsights) = 2
    /\ WrittenInsights[1].category = "trend" /\ WrittenInsights[2].category = "trend"
    /\ WrittenInsights[1].title = WrittenInsights[2].title

\* hours between the generator call that built the payload now in
\* summary.json and the present
ServedAge == clock - FromIsoFormat(summaryFile.content.generated_at)

\* C36: a cache hit leaves cache.json as it was, cached_at included, and the
\* payload a hit serves was generated no more than cache_ttl_hours ago,
\* whatever hits came before.
C36_HitNeverRefreshes ==
    [][ (LiveRun /\ last'.hit) =>
          /\ cacheFile' = cacheFile
          /\ summaryFile'.state = "ok"
          /\ \E cache_ttl_hours \in TtlChoices : ServedAge' <= cache_ttl_hours ]_vars

\* a hit serves a payload whose age equals the TTL from an entry that keeps
\* the cached_at of the generator call
C36_Witness ==
    /\ last.op = "generate" /\ last.hit
    /\ ServedAge \in TtlChoices /\ clock > 0
    /\ cacheFile.state = "ok"
    /\ FromIsoFormat(cacheFile.content.cached_at) = clock - ServedAge

\* C33: in a directory that only generate() writes, starting empty, whenever
\* cache.json exists, summary.json exists and holds the insights_data of the
\* cache entry, generated_at included.
C33_SummaryMatchesCache ==
    cacheFile.state # "absent" =>
        /\ cacheFile.state = "ok"
        /\ summaryFile.state = "ok"
        /\ summaryFile.content = cacheFile.content.insights_data

\* after a dry run, a cache hit rewrote the summary of an entry created an
\* hour before
C33_Witness ==
    /\ last.op = "generate" /\ last.hit
    /\ promptFile.state = "ok"
    /\ cacheFile.state = "ok" /\ summaryFile.state = "ok"
    /\ FromIsoFormat(summaryFile.content.generated_at) < clock
    /\ summaryFile.content.generated_at = cacheFile.content.insights_data.generated_at

\* the stored pull request a get_pr_threads call asks about
RequestedPR(call) ==
    {r \in Rows(pull_requests) :
        r.key = PullRequestUid(call.repository_id, call.pull_request_id)}

\* C37: every get_pr_threads call of a run names the project of the pull
\* request whose threads it requests.
C37_ThreadsUnderOwnProject ==
    \A k \in ThreadsCalls(apiCalls) :
        \A r \in RequestedPR(apiCalls[k]) : apiCalls[k].project = r.project

\* the threads of a pull request of the second project were requested
C37_Witness ==
    \E k \in ThreadsCalls(apiCalls) :
        \E r \in RequestedPR(apiCalls[k]) : r.project = Projects[2]

\* the store holds the thread, at least as recent as it was fetched
StoredAsRecent(threads_table, pr_uid, thread) ==
    \E r \in Rows(threads_table) :
        /\ r.key = Str(thread.id)
        /\ r.pull_request_uid = pr_uid
        /\ r.last_updated >= thread.lastUpdatedDate

\* the threads the run fetched, kept after the cut and did not upsert
SkippedThreads(pr_uid) ==
    LET ts == KeptThreads(pr_uid)
    IN {ts[i] : i \in {j \in 1..Len(ts) : ~ThreadUpserted(pr_uid, ts[j])}}

\* C34: over any sequence of comment extractions, a thread that a run
\* fetches and skips as unchanged was stored, when the run began, with a
\* last_updated no older than its fetched lastUpdatedDate.
C34_SkipOnlyStored ==
    [][ pc = "finish" /\ CommentsReturned' =>
          \A k \in 1..Len(FetchedPRs') :
              ~FetchedPRs'[k].raised =>
                  \A t \in SkippedThreads(FetchedPRs[k].pr)' :
                      StoredAsRecent(threads, FetchedPRs'[k].pr, t) ]_vars

\* a run without thread limit skipped a thread that the store does not hold
C34_Witness ==
    /\ CommentsReturned
    /\ args.comments_max_threads_per_pr = 0
    /\ \E k \in 1..Len(FetchedPRs) :
         /\ ~FetchedPRs[k].raised
         /\ \E t \in SkippedThreads(FetchedPRs[k].pr) :
              ~\E r \in Rows(threads) : r.key = Str(t.id)

\* the step extracts a project
ProjectExtracted == pc = "extract" /\ Len(results') = Len(results) + 1

ThisResult == results[Len(results)]

\* the pull requests of a project closed between two days, as the API lists them
ClosedBetween(project, first, last_) ==
    LET listed == list_pull_requests(project, first, last_)
    IN {listed[i] : i \in 1..Len(listed)}

\* every pull request closed in the days the successful windows span is stored
NoDayLeftOut ==
    \A p \in ProjectSet :
        windows[p].end # NoDate =>
            \A pr \in ClosedBetween(p, windows[p].first_start, windows[p].end) :
                PullRequestRow(pr) \in Rows(pull_requests)

\* C35 as stated: in a sequence of incremental runs every successful
\* extraction of a project starts one day after the end date of the previous
\* successful one, a failed one changes nothing, and no day between the
\* first start and the last end is left out.
C35_Contiguous ==
    [][ ProjectExtracted =>
          /\ (ThisResult'.success /\ windows[ThisResult'.project].last_end # NoDate)
                => ThisResult'.start_date = windows[ThisResult'.project].last_end + 1
          /\ ~ThisResult'.success =>
                /\ watermark' = watermark
                /\ pull_requests' = pull_requests
          /\ NoDayLeftOut' ]_vars

\* C35: the same of the successful extractions whose window is not empty;
\* one whose window is empty (start after end) changes nothing either.
C35_ContiguousNonEmpty ==
    [][ ProjectExtracted =>
          LET r == ThisResult'
              extracted == r.success /\ ~WindowIsEmpty(r.start_date, r.end_date)
          IN /\ (extracted /\ windows[r.project].end # NoDate)
                   => r.start_date = windows[r.project].end + 1
             /\ extracted => watermark'[r.project] = r.end_date
             /\ ~extracted =>
                   /\ watermark' = watermark
                   /\ pull_requests' = pull_requests
             /\ NoDayLeftOut' ]_vars

\* the second window of a project, extracted the day after the first: it
\* starts the day after the first ended, and the first held pull requests
C35_Witness ==
    /\ pc = "idle" /\ today = MaxToday
    /\ \E i \in 1..Len(results) :
         /\ results[i].success
         /\ results[i].start_date = results[i].end_date
         /\ results[i].start_date = MaxToday - 1
         /\ windows[results[i].project].end = results[i].end_date
         /\ windows[results[i].project].first_start = 0
         /\ ClosedBetween(results[i].project, 0, MaxToday) # {}

\* the period_start sequence of a forecast
PeriodStarts(f) == [i \in 1..Len(f.values) |-> f.values[i].period_start]

\* C39: in every trends.json each forecast has exactly horizon_weeks values,
\* every metric of the file has the same horizon_weeks and the same
\* period_start sequence, and the horizon is the one of the file's
\* data-quality status (2 for low_confidence, else 4), whatever the number
\* of points of the metric.
C39_OneHorizonPerFile ==
    trendsFile.state = "ok" =>
        LET written == trendsFile.content
            fs == written.forecasts
        IN /\ \A k \in 1..Len(fs) :
                 /\ Len(fs[k].values) = fs[k].horizon_weeks
                 /\ fs[k].horizon_weeks =
                      (IF written.data_quality = "low_confidence" THEN 2 ELSE 4)
           /\ \A j, k \in 1..Len(fs) :
                 /\ fs[j].horizon_weeks = fs[k].horizon_weeks
                 /\ PeriodStarts(fs[j]) = PeriodStarts(fs[k])

\* a file of status normal with both metrics, the cycle time having fewer
\* numeric points than the low-confidence threshold: both span four weeks
C39_Witness ==
    /\ trendsFile.state = "ok"
    /\ trendsFile.content.data_quality = "normal"
    /\ Len(trendsFile.content.forecasts) = 2
    /\ Len(NumericPoints(weekly, "cycle_time_minutes")) < LOW_CONFIDENCE_THRESHOLD
    /\ Len(NumericPoints(weekly, "pr_throughput")) >= LOW_CONFIDENCE_THRESHOLD
    /\ \A k \in 1..2 : Len(trendsFile.content.forecasts[k].values) = HORIZON_WEEKS

(***************************************************************************)
(* Claims about dataset discovery.                                         *)
(***************************************************************************)
\* the candidates whose manifest exists and parses as JSON, in priority order
ParsedCandidates ==
    SelectSeq([n \in 1..Len(CANDIDATE_PATHS) |-> n],
              LAMBDA n : artifacts.exists /\ artifacts.manifests[n].state = "json")

ExpectedRoots ==
    [k \in 1..Len(ParsedCandidates) |->
        Resolve(Join(artifacts.path, CANDIDATE_PATHS[ParsedCandidates[k]]))]

\* C31: find_dataset_roots returns exactly the candidate directories whose
\* dataset-manifest.json exists and parses as JSON, in the order '.',
\* 'aggregates', 'aggregates/aggregates', 'dataset', skipping the manifests
\* that do not parse and giving [] for a missing directory;
\* get_best_dataset_root returns the first of them, or None when there is
\* none.
C31_RootsInPriorityOrder ==
    /\ discovery.op = "find_dataset_roots" =>
          /\ discovery.out.raised = "none"
          /\ discovery.out.value = ExpectedRoots
    /\ discovery.op = "get_best_dataset_root" =>
          /\ discovery.out.raised = "none"
          /\ discovery.out.value = (IF ExpectedRoots = <<>> THEN None ELSE ExpectedRoots[1])

\* the manifest of 'aggregates' holds bytes that are not UTF-8 and the one
\* of 'dataset' parses: the search raises instead of returning 'dataset'
C31_Witness ==
    /\ discovery.op = "find_dataset_roots"
    /\ artifacts.manifests[2] = NotUtf8
    /\ artifacts.manifests[4].state = "json"
    /\ discovery.out.raised = "UnicodeDecodeError"

\* the first check of validate_dataset_root that fails, none when all pass
FirstFailedCheck ==
    IF ~dataset.exists THEN <<"Dataset path does not exist:", dataset.path>>
    ELSE IF dataset.manifest = Absent
    THEN <<"dataset-manifest.json not found in", dataset.path>>
    ELSE IF dataset.manifest = CannotOpen THEN <<"Error reading manifest:">>
    ELSE IF dataset.manifest.state # "json" THEN <<"Invalid JSON in manifest:">>
    ELSE LET v == dataset.manifest.value
         IN IF v.type \in {"null", "number", "boolean"} \/ ~v.schema_version
            THEN <<"Manifest missing required field: schema_version">>
            ELSE IF v.type # "object" \/ v.aggregate_index \notin {"object", "array"}
            THEN <<"Manifest missing aggregate_index">>
            ELSE NoError

\* C32: for every dataset path and every content of its manifest,
\* validate_dataset_root returns a pair without raising: (True, None)
\* exactly when the path and the manifest exist, the manifest parses as
\* JSON, contains schema_version and a non-empty aggregate_index; otherwise
\* (False, message), the message naming the first failed check.
C32_ValidateNeverRaises ==
    discovery.op = "validate_dataset_root" =>
        /\ discovery.out.raised = "none"
        /\ discovery.out.value.is_valid <=> (FirstFailedCheck = NoError)
        /\ discovery.out.value.error = FirstFailedCheck

\* a manifest that holds the JSON value null: the membership test raises
C32_Witness ==
    /\ discovery.op = "validate_dataset_root"
    /\ dataset.exists
    /\ dataset.manifest = Json([type |-> "null"])
    /\ discovery.out.raised = "TypeError"

====
